---- MODULE Spec2Model ----
(***************************************************************************)
(* State-machine model of the VirtuGhan QGIS plugin: the Engine and        *)
(* Extractor dock widgets with their background tasks, the Engine          *)
(* Processing algorithm, the plugin lifecycle object and the AOI manager.  *)
(*                                                                         *)
(* Conventions                                                             *)
(*  - a bbox is a sequence <<xmin, ymin, xmax, ymax>>; the empty sequence  *)
(*    stands for Python's None (both are falsy in `if not bbox`);          *)
(*  - a component that has not been constructed has its `*_exists` flag    *)
(*    FALSE and none of its handlers can fire;                             *)
(*  - widget values and the map canvas are inputs of the handler that      *)
(*    reads them (\E), the stored AOI and the tasks are state;             *)
(*  - the output directory is assumed writable (os.makedirs and open()     *)
(*    succeed).                                                            *)
(***************************************************************************)
EXTENDS Integers, Sequences, FiniteSets, TLC

VARIABLES
    engine_exists,   \* an EngineDockWidget has been constructed
    engine_aoi_bbox, \* EngineDockWidget._aoi_bbox
    engine_ui,       \* enabled/visible flags driven by _set_running and _aoi_mode_changed
    engine_tool,     \* the _AoiDrawTool is the active map tool
    engine_tail,     \* log tailer: _tail_timer, _tail_pos, file text appended to logText
    engine_log,      \* lines of <output_dir>/runtime.log
    engine_outdir,   \* the run's output folder exists on disk
    engine_env,      \* engine_widget globals: VCubeProcessor / CommonParamsWidget imported
    etask            \* the _VCubeTask handed to the task manager, and its compute thread

vars_engine == <<engine_exists, engine_aoi_bbox, engine_ui, engine_tool,
                 engine_tail, engine_log, engine_outdir, engine_env, etask>>

VARIABLES
    extractor_exists,   \* an ExtractorDockWidget has been constructed
    extractor_aoi_bbox, \* ExtractorDockWidget._aoi_bbox
    extractor_tool,     \* ExtractorDockWidget._aoi_tool is the active map tool
    extractor_env,      \* module globals of extractor_widget: ExtractorBackend / CommonParamsWidget
    xtask,              \* an _ExtractorTask handed to the task manager (any one of them)
    dialog,             \* the QMessageBox the latest step showed ("none": it showed none)
    run_click,          \* history: "valid"/"invalid" when the latest step was a Run click
                        \* with valid/invalid inputs, else "none"
    submitted           \* the latest step handed a task to QgsApplication.taskManager()

vars_extractor == <<extractor_exists, extractor_aoi_bbox, extractor_tool,
                    extractor_env, xtask>>

VARIABLES
    algo,               \* one call of VirtuGhanEngineAlgorithm.processAlgorithm
    plugin,             \* the VirtuGhanPlugin object: its fields and its place in the lifecycle
    host,               \* what the plugin has registered with QGIS: menu, toolbar, docks, provider
    aoi_manager         \* an AoiManager, its memory layer and the project's layer store

VARIABLES
    zip,                \* one call of extract_zipfiles and what it did to the file system
    tile,               \* the tile endpoint of tiler/api.py and the XYZ layer that points at it
    boot,               \* one call of install_dependencies / ensure_virtughan_installed
    registry,           \* the host's Processing registry: the plugin's provider and its algorithms
    tiler               \* a TilerWidget, its _InProcessServerManager, the server threads

vars_tools == <<zip, tile, boot, registry, tiler>>

others_zip == <<tile, boot, registry, tiler>>
others_tile == <<zip, boot, registry, tiler>>
others_boot == <<zip, tile, registry, tiler>>
others_registry == <<zip, tile, boot, tiler>>
others_tiler == <<zip, tile, boot, registry>>

vars_rest == <<algo, plugin, host, aoi_manager, vars_tools>>

vars_docks == <<vars_engine, vars_extractor, algo, plugin, host, aoi_manager>>

vars == <<vars_engine, vars_extractor, vars_rest, dialog, run_click, submitted>>

----------------------------------------------------------------------------
(* Bounds of the model                                                     *)

\* canvas extents and drawn rectangles are 60 degrees wide; their lower-left
\* corner has a longitude in 60 * (0 .. GridMax) and a latitude of 0 or 60, so
\* that a latitude (and, after a swap of the axes, a value taken for one)
\* reaches 120 and leaves +-90
GridMax == 1
\* how often the polling loop of _VCubeTask.run may write a heartbeat line
MaxHeartbeats == 1
\* how many units of work the backend call extract() may take
MaxWork == 4
\* how many memory layers an AoiManager may create in one session
MaxLayers == 3
\* how many features the memory provider of one layer may hand an id to
MaxFid == 4

\* extract_zipfiles: archives met in one call, members of an archive, and
\* components of a member name
MaxArchives == 2
MaxMembers == 2
MaxDepth == 2

\* the tile endpoint: requests answered, and the largest zoom and tile index asked for
MaxRequests == 2
MaxZoom == 25
MaxTileXY == 1

\* how often the host may call loadAlgorithms of the registered provider
MaxLoads == 2

\* the Tiler dock: uvicorn.Server objects created, ports above the default one
\* the user picks, and layers of the project with and without the tile path
MaxServers == 2
MaxPortOffset == 1
MaxTileLayers == 2
MaxOtherLayers == 1

----------------------------------------------------------------------------
(* Geometry helpers                                                        *)

None == <<>>

CrsSet == {"EPSG:4326", "EPSG:4087"}

\* QgsCoordinateTransform(src, EPSG:4326).transform on one coordinate.
\* EPSG:4087 (equidistant cylindrical) is linear: 111319 m per degree.
ToWgs84(crs, v) == IF crs = "EPSG:4326" THEN v ELSE v \div 111319

\* QgsCoordinateTransform(EPSG:4326, dst).transform on one coordinate.
FromWgs84(crs, v) == IF crs = "EPSG:4326" THEN v ELSE v * 111319

Min(a, b) == IF a <= b THEN a ELSE b
Max(a, b) == IF a >= b THEN a ELSE b
Abs(a) == IF a < 0 THEN -a ELSE a

LonCorners == {60 * k : k \in 0 .. GridMax}
LatCorners == {0, 60}

\* rectangles in degrees, and the same rectangles in the units of a map CRS
DegRects == {<<x, y, x + 60, y + 60>> : x \in LonCorners, y \in LatCorners}
MapRect(crs, r) == <<FromWgs84(crs, r[1]), FromWgs84(crs, r[2]),
                     FromWgs84(crs, r[3]), FromWgs84(crs, r[4])>>

\* what iface.mapCanvas() shows: destination CRS and extent in that CRS
Canvases == [crs : CrsSet, extent : DegRects]
CanvasExtent(cv) == MapRect(cv.crs, cv.extent)

bbox_looks_projected(b) ==
    IF b = None THEN FALSE
    ELSE Abs(b[1]) > 180 \/ Abs(b[3]) > 180 \/ Abs(b[2]) > 90 \/ Abs(b[4]) > 90

\* engine_widget._extent_to_wgs84: identity for EPSG:4326, else the two
\* corners are transformed and re-ordered
Engine_extent_to_wgs84(crs, ext) ==
    IF crs = "EPSG:4326" THEN ext
    ELSE LET llx == ToWgs84(crs, ext[1])  lly == ToWgs84(crs, ext[2])
             urx == ToWgs84(crs, ext[3])  ury == ToWgs84(crs, ext[4])
         IN <<Min(llx, urx), Min(lly, ury), Max(llx, urx), Max(lly, ury)>>

----------------------------------------------------------------------------
(* Form values                                                             *)

Texts == {"", " ", "x"}
Strip(s) == IF s = " " THEN "" ELSE s
Dates == 1 .. 2

\* a step that shows no message box and is no Run click
Quiet == dialog' = "none" /\ run_click' = "none" /\ submitted' = FALSE

----------------------------------------------------------------------------
(* Engine dock: EngineDockWidget and _VCubeTask                            *)

Modes == {"extent", "draw"}

NoTask == [st |-> "none", pc |-> "none", bbox |-> None, canceled |-> FALSE,
           exc |-> "none", result |-> "none", thr |-> "none", holder |-> "none",
           built |-> FALSE, proc |-> None, hb |-> 0, warned |-> FALSE,
           done_calls |-> 0, dialog |-> "none", after_cancel |-> 0]

\* `timers`: QTimer objects created so far; `shown`: what the tailer has
\* appended to logText
NoTail == [timer |-> FALSE, timers |-> 0, path |-> FALSE, pos |-> 0, shown |-> <<>>]

\* EngineDockWidget.__init__ : progress bar hidden, AOI unset, the AOI buttons
\* enabled according to the mode combo's current text
EngineUiInit(mode) ==
    [progress |-> FALSE, run |-> TRUE, reset |-> TRUE, clear |-> TRUE,
     mode_combo |-> TRUE, browse |-> TRUE, mode |-> mode,
     use |-> (mode = "extent"), draw |-> (mode = "draw")]

EngineAbsent ==
    /\ engine_exists = FALSE
    /\ engine_aoi_bbox = None
    /\ engine_ui = EngineUiInit("extent")
    /\ engine_tool = FALSE
    /\ engine_tail = NoTail
    /\ engine_log = <<>>
    /\ engine_outdir = FALSE
    /\ engine_env = [vcube |-> FALSE, common |-> FALSE]
    /\ etask = NoTask

EngineConstructed ==
    /\ engine_exists = TRUE
    /\ engine_aoi_bbox = None
    /\ \E m \in Modes : engine_ui = EngineUiInit(m)
    /\ engine_tool = FALSE
    /\ engine_tail = NoTail
    /\ engine_log = <<>>
    /\ engine_outdir = FALSE
    /\ engine_env \in [vcube : BOOLEAN, common : BOOLEAN]
    /\ etask = NoTask

\* EngineDockWidget._aoi_mode_changed
Engine_aoi_mode_changed(ui, mode) ==
    [ui EXCEPT !.mode = mode, !.use = (mode = "extent"), !.draw = (mode = "draw")]

E_ModeChanged(mode) ==
    /\ engine_exists /\ engine_ui.mode_combo
    /\ mode # engine_ui.mode
    /\ engine_ui' = Engine_aoi_mode_changed(engine_ui, mode)
    /\ Quiet /\ UNCHANGED <<vars_rest, vars_extractor, engine_exists, engine_aoi_bbox, engine_tool,
                            engine_tail, engine_log, engine_outdir, engine_env, etask>>

\* EngineDockWidget._use_canvas_extent
E_UseCanvasExtent(cv) ==
    /\ engine_exists /\ engine_ui.use
    /\ engine_aoi_bbox' = Engine_extent_to_wgs84(cv.crs, CanvasExtent(cv))
    /\ Quiet /\ UNCHANGED <<vars_rest, vars_extractor, engine_exists, engine_ui, engine_tool,
                            engine_tail, engine_log, engine_outdir, engine_env, etask>>

\* EngineDockWidget._start_draw_aoi: the draw tool becomes the map tool; the
\* mode combo is switched to "Draw polygon" when it is not there yet
E_StartDrawAoi ==
    /\ engine_exists /\ engine_ui.draw
    /\ ~engine_tool
    /\ engine_tool' = TRUE
    /\ engine_ui' = IF engine_ui.mode # "draw"
                    THEN Engine_aoi_mode_changed(engine_ui, "draw") ELSE engine_ui
    /\ Quiet /\ UNCHANGED <<vars_rest, vars_extractor, engine_exists, engine_aoi_bbox, engine_tail,
                            engine_log, engine_outdir, engine_env, etask>>

\* _AoiDrawTool._finish / keyPressEvent(Esc) -> _start_draw_aoi._finish(bbox):
\* rect is the bounding box of the clicked polygon in map units, None when
\* fewer than 3 points were clicked or the drawing was cancelled
E_DrawFinish(crs, rect) ==
    /\ engine_exists /\ engine_tool
    /\ engine_tool' = FALSE
    /\ engine_aoi_bbox' = IF rect = None THEN engine_aoi_bbox
                          ELSE Engine_extent_to_wgs84(crs, MapRect(crs, rect))
    /\ Quiet /\ UNCHANGED <<vars_rest, vars_extractor, engine_exists, engine_ui, engine_tail,
                            engine_log, engine_outdir, engine_env, etask>>

\* EngineDockWidget._clear_aoi
E_ClearAoi ==
    /\ engine_exists /\ engine_ui.clear
    /\ engine_aoi_bbox # None
    /\ engine_aoi_bbox' = None
    /\ Quiet /\ UNCHANGED <<vars_rest, vars_extractor, engine_exists, engine_ui, engine_tool,
                            engine_tail, engine_log, engine_outdir, engine_env, etask>>

\* EngineDockWidget._reset_form
E_ResetForm ==
    /\ engine_exists /\ engine_ui.reset
    /\ engine_aoi_bbox # None \/ engine_tail.shown # <<>>
    /\ engine_aoi_bbox' = None
    /\ engine_tail' = [engine_tail EXCEPT !.shown = <<>>]
    /\ Quiet /\ UNCHANGED <<vars_rest, vars_extractor, engine_exists, engine_ui, engine_tool,
                            engine_log, engine_outdir, engine_env, etask>>

\* EngineDockWidget._set_running
Engine_set_running(ui, running) ==
    [ui EXCEPT !.progress = running, !.run = ~running, !.reset = ~running,
               !.use = ~running, !.draw = ~running, !.clear = ~running,
               !.mode_combo = ~running, !.browse = ~running]

\* the form values a Run click reads
EngineForms == [start : Dates, end : Dates, formula : Texts, band1 : Texts]

\* EngineDockWidget._collect_params: "ok" with the bbox of the params dict,
\* or the RuntimeError it raises
Engine_collect_params(aoi, env, form, cv) ==
    IF ~env.vcube THEN [ok |-> FALSE, bbox |-> None]
    ELSE IF aoi = None THEN [ok |-> FALSE, bbox |-> None]
    ELSE IF form.start > form.end THEN [ok |-> FALSE, bbox |-> None]
    ELSE IF Strip(form.formula) = "" THEN [ok |-> FALSE, bbox |-> None]
    ELSE IF Strip(form.band1) = "" THEN [ok |-> FALSE, bbox |-> None]
    ELSE [ok |-> TRUE,
          bbox |-> IF bbox_looks_projected(aoi)
                   THEN Engine_extent_to_wgs84(cv.crs, CanvasExtent(cv)) ELSE aoi]

\* EngineDockWidget._start_log_tailer on the fresh run's log path: the file does
\* not exist yet, so the initial read fails and the position stays 0
Engine_start_log_tailer(tail) ==
    [tail EXCEPT !.timer = TRUE, !.timers = IF tail.timer THEN @ ELSE @ + 1,
                 !.path = TRUE, !.pos = 0]

\* EngineDockWidget._poll_log_tail: seek to _tail_pos, read to the end of the
\* file, remember the new position, append the chunk
Engine_poll_log_tail_rereads(tail, log) ==
    [tail EXCEPT !.pos = Len(log), !.shown = @ \o log]

Engine_poll_log_tail(tail, log) ==
    [tail EXCEPT !.pos = Len(log),
                 !.shown = @ \o SubSeq(log, tail.pos + 1, Len(log))]

\* history only: whether the inputs of a Run click are valid in the words of
\* the validation rule (AOI set, start <= end, formula and band 1 not empty)
EngineInputsValid(aoi, form) ==
    /\ aoi # None
    /\ form.start <= form.end
    /\ Strip(form.formula) # ""
    /\ Strip(form.band1) # ""

\* EngineDockWidget._run_clicked
E_RunClicked ==
    /\ engine_exists /\ engine_ui.run
    /\ \E form \in EngineForms, cv \in Canvases :
         LET p == Engine_collect_params(engine_aoi_bbox, engine_env, form, cv) IN
         /\ IF (engine_env.common /\ form.start > form.end) \/ ~p.ok
            THEN /\ dialog' = "warning"
                 /\ submitted' = FALSE
                 /\ UNCHANGED <<engine_ui, engine_tail, etask>>
            ELSE /\ engine_tail' = Engine_start_log_tailer(engine_tail)
                 /\ engine_ui' = Engine_set_running(engine_ui, TRUE)
                 /\ etask' = [NoTask EXCEPT !.st = "queued", !.bbox = p.bbox]
                 /\ submitted' = TRUE
                 /\ dialog' = "none"
         /\ run_click' = IF EngineInputsValid(engine_aoi_bbox, form) THEN "valid"
                         ELSE "invalid"
    /\ UNCHANGED <<vars_rest, vars_extractor, engine_exists, engine_aoi_bbox, engine_tool,
                   engine_log, engine_outdir, engine_env>>

\* EngineDockWidget._poll_log_tail (QTimer timeout, every second)
E_PollLogTail ==
    /\ engine_exists /\ engine_tail.timer /\ engine_tail.path
    /\ engine_outdir
    /\ engine_tail.pos < Len(engine_log)
    /\ engine_tail' = Engine_poll_log_tail(engine_tail, engine_log)
    /\ Quiet /\ UNCHANGED <<vars_rest, vars_extractor, engine_exists, engine_aoi_bbox, engine_ui,
                            engine_tool, engine_log, engine_outdir, engine_env, etask>>

----------------------------------------------------------------------------
(* _VCubeTask under the host's task manager                                *)

Tick(t) == IF t.canceled THEN [t EXCEPT !.after_cancel = @ + 1] ELSE t

\* QgsTaskManager starts run() of a queued task on a pool thread
TM_StartEngine ==
    /\ etask.st = "queued"
    /\ etask' = [etask EXCEPT !.st = "running", !.pc = "begin"]
    /\ Quiet /\ UNCHANGED <<vars_rest, vars_extractor, engine_exists, engine_aoi_bbox, engine_ui,
                            engine_tool, engine_tail, engine_log, engine_outdir,
                            engine_env>>

\* the user cancels the running task from the host's task list (QgsTask.cancel)
TM_CancelEngine ==
    /\ etask.st = "running" /\ ~etask.canceled
    /\ etask' = [etask EXCEPT !.canceled = TRUE]
    /\ Quiet /\ UNCHANGED <<vars_rest, vars_extractor, engine_exists, engine_aoi_bbox, engine_ui,
                            engine_tool, engine_tail, engine_log, engine_outdir,
                            engine_env>>

\* run(), lines 108-121: create the output folder, write the log header
VT_Begin ==
    /\ etask.st = "running" /\ etask.pc = "begin"
    /\ engine_outdir' = TRUE
    /\ engine_log' = engine_log \o <<"Task started", "Params">>
    /\ etask' = [Tick(etask) EXCEPT !.pc = "preflight"]
    /\ Quiet /\ UNCHANGED <<vars_rest, vars_extractor, engine_exists, engine_aoi_bbox, engine_ui,
                            engine_tool, engine_tail, engine_env>>

\* the preflight test of run(), line 125
VCubeTask_bad_bbox_no_range(b) == (b = None) \/ (Len(b) # 4)

VCubeTask_bad_bbox(b) == (b = None) \/ (Len(b) # 4) \/ bbox_looks_projected(b)

\* run(), lines 124-185: the preflight raises ValueError into the outer except
\* (exc recorded, [fatal] logged, return False), else the compute thread starts
VT_Preflight ==
    /\ etask.st = "running" /\ etask.pc = "preflight"
    /\ IF VCubeTask_bad_bbox(etask.bbox)
       THEN /\ etask' = [Tick(etask) EXCEPT !.exc = "ValueError", !.result = FALSE,
                                            !.pc = "done", !.st = "returned"]
            /\ engine_log' = Append(engine_log, "[fatal]")
       ELSE /\ etask' = [Tick(etask) EXCEPT !.thr = "started", !.pc = "loop"]
            /\ UNCHANGED engine_log
    /\ Quiet /\ UNCHANGED <<vars_rest, vars_extractor, engine_exists, engine_aoi_bbox, engine_ui,
                            engine_tool, engine_tail, engine_outdir, engine_env>>

ThreadAlive(t) == t.thr \in {"started", "computing"}

\* run(), lines 191-212: one pass of `while t.is_alive()`
VT_Loop ==
    /\ etask.st = "running" /\ etask.pc = "loop"
    /\ \/ /\ ~ThreadAlive(etask)
          /\ etask' = [Tick(etask) EXCEPT !.pc = "join"]
          /\ UNCHANGED engine_log
       \/ /\ ThreadAlive(etask) /\ etask.canceled
          /\ etask' = [Tick(etask) EXCEPT !.pc = "join"]
          /\ engine_log' = Append(engine_log, "[cancel]")
       \/ /\ ThreadAlive(etask) /\ ~etask.canceled
          /\ etask.hb < MaxHeartbeats
          /\ etask' = [etask EXCEPT !.hb = @ + 1]
          /\ engine_log' = Append(engine_log, "[heartbeat]")
       \/ /\ ThreadAlive(etask) /\ ~etask.canceled
          /\ ~etask.warned
          /\ etask' = [etask EXCEPT !.warned = TRUE]
          /\ engine_log' = Append(engine_log, "[warning]")
    /\ Quiet /\ UNCHANGED <<vars_rest, vars_extractor, engine_exists, engine_aoi_bbox, engine_ui,
                            engine_tool, engine_tail, engine_outdir, engine_env>>

\* run(), line 214: t.join(timeout=1.0) returns whether or not the thread ended
VT_Join ==
    /\ etask.st = "running" /\ etask.pc = "join"
    /\ etask' = [Tick(etask) EXCEPT !.pc = "check"]
    /\ Quiet /\ UNCHANGED <<vars_rest, vars_extractor, engine_exists, engine_aoi_bbox, engine_ui,
                            engine_tool, engine_tail, engine_log, engine_outdir,
                            engine_env>>

\* run(), lines 216-220
VT_Return ==
    /\ etask.st = "running" /\ etask.pc = "check"
    /\ etask' = IF etask.holder # "none"
                THEN [Tick(etask) EXCEPT !.exc = etask.holder, !.result = FALSE,
                                         !.pc = "done", !.st = "returned"]
                ELSE [Tick(etask) EXCEPT !.result = TRUE, !.pc = "done", !.st = "returned"]
    /\ Quiet /\ UNCHANGED <<vars_rest, vars_extractor, engine_exists, engine_aoi_bbox, engine_ui,
                            engine_tool, engine_tail, engine_log, engine_outdir,
                            engine_env>>

\* run_compute up to the call of compute(): VCubeProcessor(**params) is built
\* with the task's bbox, or its constructor raises into _thread_wrapper
VC_Build(raises) ==
    /\ etask.thr = "started"
    /\ IF raises
       THEN /\ etask' = [etask EXCEPT !.thr = "dead", !.holder = "ctor_error"]
            /\ engine_log' = Append(engine_log, "Starting VCubeProcessor")
       ELSE /\ etask' = [etask EXCEPT !.thr = "computing", !.built = TRUE,
                                      !.proc = etask.bbox]
            /\ engine_log' = engine_log \o <<"Starting VCubeProcessor", "entering compute()">>
    /\ Quiet /\ UNCHANGED <<vars_rest, vars_extractor, engine_exists, engine_aoi_bbox, engine_ui,
                            engine_tool, engine_tail, engine_outdir, engine_env>>

\* compute() returns or raises: _wrapped_compute, lines 160-181
VC_ComputeEnds(raises) ==
    /\ etask.thr = "computing"
    /\ IF raises
       THEN /\ etask' = [etask EXCEPT !.thr = "dead", !.holder = "compute_error"]
            /\ engine_log' = engine_log \o <<"exited compute()", "[exception]">>
       ELSE /\ etask' = [etask EXCEPT !.thr = "dead"]
            /\ engine_log' = engine_log \o <<"exited compute()", "Finished">>
    /\ Quiet /\ UNCHANGED <<vars_rest, vars_extractor, engine_exists, engine_aoi_bbox, engine_ui,
                            engine_tool, engine_tail, engine_outdir, engine_env>>

\* EngineDockWidget._run_clicked._on_done, the callback handed to _VCubeTask
Engine_on_done(ok, exc) ==
    /\ engine_ui' = Engine_set_running(engine_ui, FALSE)
    /\ dialog' = IF ~ok \/ exc # "none" THEN "critical" ELSE "information"
    /\ etask' = [etask EXCEPT !.done_calls = @ + 1,
                              !.dialog = IF ~ok \/ exc # "none" THEN "critical"
                                         ELSE "information"]

\* what QgsTaskManager calls on the main thread once run() has returned:
\* _VCubeTask defines no finished(), so QgsTask's empty finished() runs and
\* the on_done callback stored by __init__ is not called
VCubeTask_finished ==
    /\ etask' = [etask EXCEPT !.st = "complete"]
    /\ UNCHANGED engine_ui
    /\ dialog' = "none"

TM_FinishEngine ==
    /\ etask.st = "returned"
    /\ VCubeTask_finished
    /\ run_click' = "none"
    /\ submitted' = FALSE
    /\ UNCHANGED <<vars_rest, vars_extractor, engine_exists, engine_aoi_bbox, engine_tool,
                   engine_tail, engine_log, engine_outdir, engine_env>>

NextEngine ==
    \/ \E m \in Modes : E_ModeChanged(m)
    \/ \E cv \in Canvases : E_UseCanvasExtent(cv)
    \/ E_StartDrawAoi
    \/ \E crs \in CrsSet, r \in DegRects \cup {None} : E_DrawFinish(crs, r)
    \/ E_ClearAoi
    \/ E_ResetForm
    \/ E_RunClicked
    \/ TM_StartEngine
    \/ TM_CancelEngine
    \/ VT_Begin
    \/ VT_Preflight
    \/ VT_Loop
    \/ VT_Join
    \/ VT_Return
    \/ \E raises \in BOOLEAN : VC_Build(raises)
    \/ \E raises \in BOOLEAN : VC_ComputeEnds(raises)
    \/ TM_FinishEngine


----------------------------------------------------------------------------
(* Extractor dock: ExtractorDockWidget and _ExtractorTask                  *)

\* extractor_widget._extent_to_wgs84_bbox for a QgsRectangle: both corners go
\* through the transform and are re-ordered
Extractor_extent_to_wgs84_bbox(crs, ext) ==
    LET llx == ToWgs84(crs, ext[1])  lly == ToWgs84(crs, ext[2])
        urx == ToWgs84(crs, ext[3])  ury == ToWgs84(crs, ext[4])
    IN <<Min(llx, urx), Min(lly, ury), Max(llx, urx), Max(lly, ury)>>

\* no _ExtractorTask is followed yet
NoXTask ==
    [st |-> "none", pc |-> "none", bbox |-> None, canceled |-> FALSE,
     exc |-> "none", result |-> "none", built |-> FALSE, proc |-> None, work |-> 0,
     raised |-> FALSE, files |-> FALSE, outdir |-> FALSE, log |-> <<>>,
     done_calls |-> 0, dialog |-> "none", loaded |-> 0, expected |-> None,
     after_cancel |-> 0]

ExtractorAbsent ==
    /\ extractor_exists = FALSE
    /\ extractor_aoi_bbox = None
    /\ extractor_tool = FALSE
    /\ extractor_env = [backend |-> FALSE, common |-> FALSE]
    /\ xtask = NoXTask

ExtractorConstructed ==
    /\ extractor_exists = TRUE
    /\ extractor_aoi_bbox = None
    /\ extractor_tool = FALSE
    /\ extractor_env \in [backend : BOOLEAN, common : BOOLEAN]
    /\ xtask = NoXTask

\* ExtractorDockWidget._use_canvas_extent
X_UseCanvasExtent(cv) ==
    /\ extractor_exists
    /\ extractor_aoi_bbox' = Extractor_extent_to_wgs84_bbox(cv.crs, CanvasExtent(cv))
    /\ Quiet /\ UNCHANGED <<vars_rest, vars_engine, extractor_exists, extractor_tool, extractor_env,
                            xtask>>

\* ExtractorDockWidget._start_draw_aoi
X_StartDrawAoi ==
    /\ extractor_exists /\ ~extractor_tool
    /\ extractor_tool' = TRUE
    /\ Quiet /\ UNCHANGED <<vars_rest, vars_engine, extractor_exists, extractor_aoi_bbox,
                            extractor_env, xtask>>

\* _AoiDrawTool._finish_polygon_and_emit -> _draw_aoi_done(rect, polygon), or
\* the tool is deactivated without a polygon (fewer than 3 points, Esc): rect = None
X_DrawAoiDone(crs, rect) ==
    /\ extractor_exists /\ extractor_tool
    /\ extractor_tool' = FALSE
    /\ extractor_aoi_bbox' = IF rect = None THEN extractor_aoi_bbox
                             ELSE Extractor_extent_to_wgs84_bbox(crs, MapRect(crs, rect))
    /\ Quiet /\ UNCHANGED <<vars_rest, vars_engine, extractor_exists, extractor_env, xtask>>

\* ExtractorDockWidget._clear_aoi
X_ClearAoi ==
    /\ extractor_exists
    /\ extractor_aoi_bbox # None \/ extractor_tool
    /\ extractor_aoi_bbox' = None
    /\ extractor_tool' = FALSE
    /\ Quiet /\ UNCHANGED <<vars_rest, vars_engine, extractor_exists, extractor_env, xtask>>

\* ExtractorDockWidget._reset_form
X_ResetForm ==
    /\ extractor_exists
    /\ extractor_aoi_bbox # None
    /\ extractor_aoi_bbox' = None
    /\ Quiet /\ UNCHANGED <<vars_rest, vars_engine, extractor_exists, extractor_tool, extractor_env,
                            xtask>>

\* QgsRectangle.contains(point), on doubled coordinates (the point is the
\* centre of a bbox, (a + b) / 2, which need not be an integer)
ContainsCentre2(ext, x2, y2) ==
    /\ 2 * ext[1] <= x2 /\ x2 <= 2 * ext[3]
    /\ 2 * ext[2] <= y2 /\ y2 <= 2 * ext[4]

\* ExtractorDockWidget._normalize_bbox_against_canvas: <<bbox, why>>.
\* A transform to a projected CRS raises for a latitude beyond +-90 (caught:
\* "error"); to EPSG:4326 it is the identity and raises nothing.
Extractor_normalize_bbox_against_canvas(b, cv) ==
    IF b = None \/ Len(b) # 4 THEN <<b, "invalid">>
    ELSE LET a_lon2 == b[1] + b[3]
             a_lat2 == b[2] + b[4]
             b_lon2 == b[2] + b[4]
             b_lat2 == b[1] + b[3]
             ext    == CanvasExtent(cv)
             in_a   == ContainsCentre2(ext, FromWgs84(cv.crs, a_lon2), FromWgs84(cv.crs, a_lat2))
             in_b   == ContainsCentre2(ext, FromWgs84(cv.crs, b_lon2), FromWgs84(cv.crs, b_lat2))
         IN IF cv.crs # "EPSG:4326" /\ (Abs(a_lat2) > 180 \/ Abs(b_lat2) > 180)
            THEN <<b, "error">>
            ELSE IF in_a /\ ~in_b THEN <<b, "ok">>
            ELSE IF in_b /\ ~in_a THEN <<<<b[2], b[1], b[4], b[3]>>, "swapped">>
            ELSE <<b, "ambiguous">>

\* the form values a Run click reads: dates of the common widget, the texts of
\* the selected items of bandsListWidget
ExtractorForms == [start : Dates, end : Dates, bands : SUBSET {" ", "x"}]

bands_list(form) == {Strip(t) : t \in form.bands} \ {""}

\* ExtractorDockWidget._collect_params, lines 778-800: FALSE when it raises
Extractor_params_ok_no_band_check(aoi, env, form) ==
    /\ env.backend
    /\ aoi # None
    /\ ~bbox_looks_projected(aoi)
    /\ env.common
    /\ form.start <= form.end

Extractor_params_ok(aoi, env, form) ==
    /\ env.backend
    /\ aoi # None
    /\ ~bbox_looks_projected(aoi)
    /\ env.common
    /\ form.start <= form.end
    /\ bands_list(form) # {}

\* ExtractorDockWidget._collect_params, lines 802-842: the bbox of the params
\* dict, after the normalisation against the canvas at its end
Extractor_collect_params(aoi, cv) ==
    LET n == Extractor_normalize_bbox_against_canvas(aoi, cv)
    IN IF n[2] = "swapped" THEN n[1] ELSE aoi

\* _ExtractorTask.__init__ after _run_clicked has made the output folder and
\* an empty runtime.log
NewXTask(bbox) == [NoXTask EXCEPT !.st = "queued", !.bbox = bbox, !.outdir = TRUE]

\* history only: whether the inputs of a Run click are valid in the words of
\* the validation rule (AOI set, start <= end, at least one selected band)
ExtractorInputsValid(aoi, form) ==
    /\ aoi # None
    /\ form.start <= form.end
    /\ \E t \in form.bands : Strip(t) # ""

\* ExtractorDockWidget._run_clicked: on success the bbox is normalised once
\* more, the output folder and an empty runtime.log are created and the task
\* is handed to the task manager.  The canvas is read only after the checks
\* of _collect_params have passed.  The dock stays enabled, so Run may be
\* clicked again while tasks are in flight; the tasks share nothing, and
\* xtask follows one of them, chosen here.
X_RunClicked(form) ==
    /\ extractor_exists
    /\ IF ~Extractor_params_ok(extractor_aoi_bbox, extractor_env, form)
       THEN /\ dialog' = "warning"
            /\ submitted' = FALSE
            /\ UNCHANGED xtask
       ELSE /\ submitted' = TRUE
            /\ dialog' = "none"
            /\ \/ /\ xtask.st = "none"
                  /\ \E cv \in Canvases :
                       LET p == Extractor_collect_params(extractor_aoi_bbox, cv)
                           n == Extractor_normalize_bbox_against_canvas(p, cv)
                       IN xtask' = NewXTask(IF n[2] = "swapped" THEN n[1] ELSE p)
               \/ UNCHANGED xtask
    /\ run_click' = IF ExtractorInputsValid(extractor_aoi_bbox, form) THEN "valid" ELSE "invalid"
    /\ UNCHANGED <<vars_rest, vars_engine, extractor_exists, extractor_aoi_bbox, extractor_tool,
                   extractor_env>>

----------------------------------------------------------------------------
(* _ExtractorTask under the host's task manager                            *)

\* QgsTaskManager starts run() of a queued task on a pool thread
TM_StartExtractor ==
    /\ xtask.st = "queued"
    /\ xtask' = [xtask EXCEPT !.st = "running", !.pc = "begin"]
    /\ Quiet /\ UNCHANGED <<vars_rest, vars_engine, extractor_exists, extractor_aoi_bbox,
                            extractor_tool, extractor_env>>

\* the user cancels the running task from the host's task list (QgsTask.cancel)
TM_CancelExtractor ==
    /\ xtask.st = "running" /\ ~xtask.canceled
    /\ xtask' = [xtask EXCEPT !.canceled = TRUE]
    /\ Quiet /\ UNCHANGED <<vars_rest, vars_engine, extractor_exists, extractor_aoi_bbox,
                            extractor_tool, extractor_env>>

\* run(), lines 214-217: output folder, log opened, header written
XT_Begin ==
    /\ xtask.st = "running" /\ xtask.pc = "begin"
    /\ xtask' = [Tick(xtask) EXCEPT !.pc = "construct",
                                    !.log = @ \o <<"Starting Extractor", "Params">>]
    /\ Quiet /\ UNCHANGED <<vars_rest, vars_engine, extractor_exists, extractor_aoi_bbox,
                            extractor_tool, extractor_env>>

\* run(), lines 233-241: the except branch
ExtractorTask_except_returns_true(t) ==
    [t EXCEPT !.exc = "backend_error", !.log = Append(@, "[exception]"),
              !.result = TRUE, !.pc = "done", !.st = "returned"]

ExtractorTask_except(t) ==
    [t EXCEPT !.exc = "backend_error", !.log = Append(@, "[exception]"),
              !.result = FALSE, !.pc = "done", !.st = "returned"]

\* run(), lines 218-229: ExtractorBackend(bbox=..., ...) is built or raises
XT_Construct(raises) ==
    /\ xtask.st = "running" /\ xtask.pc = "construct"
    /\ xtask' = IF raises
                THEN ExtractorTask_except([Tick(xtask) EXCEPT !.raised = TRUE])
                ELSE [Tick(xtask) EXCEPT !.built = TRUE, !.proc = xtask.bbox,
                                         !.pc = "extract"]
    /\ Quiet /\ UNCHANGED <<vars_rest, vars_engine, extractor_exists, extractor_aoi_bbox,
                            extractor_tool, extractor_env>>

\* run(), line 230: extr.extract() is busy on the thread of run()
XT_Work ==
    /\ xtask.st = "running" /\ xtask.pc = "extract"
    /\ xtask.work < MaxWork
    /\ xtask' = [Tick(xtask) EXCEPT !.work = @ + 1]
    /\ Quiet /\ UNCHANGED <<vars_rest, vars_engine, extractor_exists, extractor_aoi_bbox,
                            extractor_tool, extractor_env>>

\* run(), lines 230-232: extract() returns (run returns True) or raises;
\* `files`: the backend has left a raster in the output folder
XT_ExtractEnds(raises, files) ==
    /\ xtask.st = "running" /\ xtask.pc = "extract"
    /\ xtask' = IF raises
                THEN ExtractorTask_except([Tick(xtask) EXCEPT !.raised = TRUE,
                                                              !.files = files])
                ELSE [Tick(xtask) EXCEPT !.files = files, !.result = TRUE,
                                         !.log = Append(@, "Extractor finished."),
                                         !.pc = "done", !.st = "returned"]
    /\ Quiet /\ UNCHANGED <<vars_rest, vars_engine, extractor_exists, extractor_aoi_bbox,
                            extractor_tool, extractor_env>>

\* ExtractorDockWidget._run_clicked._on_done: the critical dialog, or every
\* raster of the output folder goes through _try_fix_and_load with the dock's
\* current _aoi_bbox as the expected bbox, then the information dialog
Extractor_on_done(t, ok, exc, aoi_now, load_ok) ==
    IF ~ok \/ exc # "none"
    THEN [t EXCEPT !.done_calls = @ + 1, !.dialog = "critical"]
    ELSE [t EXCEPT !.done_calls = @ + 1, !.dialog = "information",
                   !.expected = IF t.files THEN aoi_now ELSE None,
                   !.loaded = IF t.files /\ load_ok THEN 1 ELSE 0]

\* _ExtractorTask.finished(ok), called by the task manager on the main thread
ExtractorTask_finished(t, aoi_now, load_ok) ==
    [Extractor_on_done(t, t.result, t.exc, aoi_now, load_ok) EXCEPT !.st = "complete"]

\* QgsTaskManager delivers finished(result) once run() has returned
TM_FinishExtractor(load_ok) ==
    /\ xtask.st = "returned"
    /\ xtask' = ExtractorTask_finished(xtask, extractor_aoi_bbox, load_ok)
    /\ dialog' = xtask'.dialog
    /\ run_click' = "none"
    /\ submitted' = FALSE
    /\ UNCHANGED <<vars_rest, vars_engine, extractor_exists, extractor_aoi_bbox,
                   extractor_tool, extractor_env>>

NextExtractor ==
    \/ \E cv \in Canvases : X_UseCanvasExtent(cv)
    \/ X_StartDrawAoi
    \/ \E crs \in CrsSet, r \in DegRects \cup {None} : X_DrawAoiDone(crs, r)
    \/ X_ClearAoi
    \/ X_ResetForm
    \/ \E f \in ExtractorForms : X_RunClicked(f)
    \/ TM_StartExtractor
    \/ TM_CancelExtractor
    \/ XT_Begin
    \/ \E raises \in BOOLEAN : XT_Construct(raises)
    \/ XT_Work
    \/ \E raises \in BOOLEAN, files \in BOOLEAN : XT_ExtractEnds(raises, files)
    \/ \E load_ok \in BOOLEAN : TM_FinishExtractor(load_ok)

----------------------------------------------------------------------------
(* Engine Processing algorithm: VirtuGhanEngineAlgorithm.processAlgorithm *)

\* the CRS of the EXTENT parameter; "invalid": none was given with it
AlgoCrs == CrsSet \cup {"invalid"}

\* START_DATE / END_DATE after _coerce_to_qdate: 0 is a QDate that is not valid
AlgoDates == {0} \cup Dates

\* engine_logic.processAlgorithm, line 174
ops == <<"mean", "median", "max", "min", "std", "sum", "var", "none">>

\* values of the OPERATION enum a call may carry: "mean", "none", out of range
OpIdx == {0, 7, 8}

AlgoParams == [crs : AlgoCrs, rect : DegRects, start : AlgoDates, end : AlgoDates,
               formula : Texts, band1 : Texts, op_idx : OpIdx, ts : BOOLEAN]

NoAlgo == [pc |-> "absent", vcube |-> FALSE, params |-> None, bbox |-> None,
           exc |-> "none", folder |-> FALSE, log |-> FALSE, reached |-> FALSE]

AlgoAbsent == algo = NoAlgo

\* the module is imported; VCUBE_IMPORT_ERROR is set or not (lines 23-28)
AlgoLoaded == \E ok \in BOOLEAN : algo = [NoAlgo EXCEPT !.pc = "idle", !.vcube = ok]

\* engine_logic._extent_to_wgs84_bbox, lines 43-49: the bbox before the range
\* test; the extent is taken as it is for EPSG:4326 and for no valid CRS
Algo_extent_to_wgs84_bbox(extent, src_crs) ==
    IF src_crs = "invalid" \/ src_crs = "EPSG:4326" THEN extent
    ELSE LET llx == ToWgs84(src_crs, extent[1])  lly == ToWgs84(src_crs, extent[2])
             urx == ToWgs84(src_crs, extent[3])  ury == ToWgs84(src_crs, extent[4])
         IN <<Min(llx, urx), Min(lly, ury), Max(llx, urx), Max(lly, ury)>>

\* engine_logic._extent_to_wgs84_bbox, line 50
Algo_bbox_out_of_range(bbox) ==
    Abs(bbox[1]) > 180 \/ Abs(bbox[3]) > 180 \/ Abs(bbox[2]) > 90 \/ Abs(bbox[4]) > 90

Algo_raise(a, exc) == [a EXCEPT !.pc = "raised", !.exc = exc]

\* processAlgorithm, lines 139-147: the import test, then the parameters are read
A_Begin ==
    /\ algo.pc = "idle"
    /\ \E p \in AlgoParams :
         algo' = IF ~algo.vcube
                 THEN Algo_raise([algo EXCEPT !.params = p], "QgsProcessingException")
                 ELSE [algo EXCEPT !.pc = "bbox", !.params = p]
    /\ Quiet /\ UNCHANGED <<vars_tools, vars_engine, vars_extractor, plugin, host, aoi_manager>>

\* processAlgorithm, line 148.  QgsCoordinateTransform.transform raises
\* QgsCsException when the projection cannot transform a corner (a point
\* outside the projection's domain); nothing in _extent_to_wgs84_bbox or
\* processAlgorithm catches it.  xform_raises is possible only where a
\* transform is made.
A_Bbox(xform_raises) ==
    /\ algo.pc = "bbox"
    /\ xform_raises => algo.params.crs \notin {"invalid", "EPSG:4326"}
    /\ LET ext  == IF algo.params.crs = "invalid" THEN algo.params.rect
                   ELSE MapRect(algo.params.crs, algo.params.rect)
           bbox == Algo_extent_to_wgs84_bbox(ext, algo.params.crs)
       IN algo' = IF xform_raises THEN Algo_raise(algo, "QgsCsException")
                  ELSE IF Algo_bbox_out_of_range(bbox)
                  THEN Algo_raise([algo EXCEPT !.bbox = bbox], "QgsProcessingException")
                  ELSE [algo EXCEPT !.bbox = bbox, !.pc = "dates"]
    /\ Quiet /\ UNCHANGED <<vars_tools, vars_engine, vars_extractor, plugin, host, aoi_manager>>

\* processAlgorithm, lines 152-164
A_Dates ==
    /\ algo.pc = "dates"
    /\ algo' = IF algo.params.start = 0 \/ algo.params.end = 0
               THEN Algo_raise(algo, "QgsProcessingException")
               ELSE IF algo.params.start > algo.params.end
               THEN Algo_raise(algo, "QgsProcessingException")
               ELSE [algo EXCEPT !.pc = "texts"]
    /\ Quiet /\ UNCHANGED <<vars_tools, vars_engine, vars_extractor, plugin, host, aoi_manager>>

\* processAlgorithm, lines 167-172
A_Texts ==
    /\ algo.pc = "texts"
    /\ algo' = IF Strip(algo.params.formula) = ""
               THEN Algo_raise(algo, "QgsProcessingException")
               ELSE IF Strip(algo.params.band1) = ""
               THEN Algo_raise(algo, "QgsProcessingException")
               ELSE [algo EXCEPT !.pc = "operation"]
    /\ Quiet /\ UNCHANGED <<vars_tools, vars_engine, vars_extractor, plugin, host, aoi_manager>>

\* processAlgorithm, lines 174-177: the operation handed to the backend,
\* "None" when the enum says "none" or is out of range
Algo_operation(op_idx) ==
    LET op_txt == IF 0 <= op_idx /\ op_idx < Len(ops) THEN ops[op_idx + 1] ELSE "none"
    IN IF op_txt = "none" THEN "None" ELSE op_txt

\* processAlgorithm, lines 174-184
A_Operation ==
    /\ algo.pc = "operation"
    /\ algo' = IF algo.params.ts = FALSE /\ Algo_operation(algo.params.op_idx) = "None"
               THEN Algo_raise(algo, "QgsProcessingException")
               ELSE [algo EXCEPT !.pc = "makedirs"]
    /\ Quiet /\ UNCHANGED <<vars_tools, vars_engine, vars_extractor, plugin, host, aoi_manager>>

\* processAlgorithm, lines 186-214: the output folder is made, runtime.log opened
A_MakeDirs ==
    /\ algo.pc = "makedirs"
    /\ algo' = [algo EXCEPT !.folder = TRUE, !.log = TRUE, !.pc = "construct"]
    /\ Quiet /\ UNCHANGED <<vars_tools, vars_engine, vars_extractor, plugin, host, aoi_manager>>

\* processAlgorithm, lines 217-234 and 239-242: the VCubeProcessor call; an
\* exception of the backend is logged and raised again as QgsProcessingException
A_Construct(raises) ==
    /\ algo.pc = "construct"
    /\ algo' = IF raises
               THEN Algo_raise([algo EXCEPT !.reached = TRUE], "QgsProcessingException")
               ELSE [algo EXCEPT !.reached = TRUE, !.pc = "compute"]
    /\ Quiet /\ UNCHANGED <<vars_tools, vars_engine, vars_extractor, plugin, host, aoi_manager>>

\* processAlgorithm, lines 235-242: proc.compute()
A_Compute(raises) ==
    /\ algo.pc = "compute"
    /\ algo' = IF raises THEN Algo_raise(algo, "QgsProcessingException")
               ELSE [algo EXCEPT !.pc = "load"]
    /\ Quiet /\ UNCHANGED <<vars_tools, vars_engine, vars_extractor, plugin, host, aoi_manager>>

\* processAlgorithm, lines 244-264: the rasters are loaded, the result returned
A_Return ==
    /\ algo.pc = "load"
    /\ algo' = [algo EXCEPT !.pc = "returned"]
    /\ Quiet /\ UNCHANGED <<vars_tools, vars_engine, vars_extractor, plugin, host, aoi_manager>>

NextAlgo ==
    \/ A_Begin
    \/ \E xform_raises \in BOOLEAN : A_Bbox(xform_raises)
    \/ A_Dates
    \/ A_Texts
    \/ A_Operation
    \/ A_MakeDirs
    \/ \E raises \in BOOLEAN : A_Construct(raises)
    \/ \E raises \in BOOLEAN : A_Compute(raises)
    \/ A_Return

----------------------------------------------------------------------------
(* VirtuGhanProcessingProvider in processing_provider.py                   *)

\* name() and groupId() of the two algorithm classes
VirtuGhanEngineAlgorithm ==
    [class |-> "VirtuGhanEngineAlgorithm", name |-> "virtughan_engine", groupId |-> "virtughan"]

VirtuGhanExtractorAlgorithm ==
    [class |-> "VirtuGhanExtractorAlgorithm", name |-> "virtughan_extractor",
     groupId |-> "virtughan"]

\* QgsProcessingProvider.addAlgorithm: an algorithm whose name the provider
\* already holds is refused
Provider_addAlgorithm(algs, a) ==
    IF \E b \in algs : b.name = a.name THEN algs ELSE algs \cup {a}

\* loadAlgorithms with the Extractor algorithm left out
Provider_loadAlgorithms_engine_only(algs) ==
    Provider_addAlgorithm(algs, VirtuGhanEngineAlgorithm)

\* VirtuGhanProcessingProvider.loadAlgorithms
Provider_loadAlgorithms(algs) ==
    Provider_addAlgorithm(Provider_addAlgorithm(algs, VirtuGhanEngineAlgorithm),
                          VirtuGhanExtractorAlgorithm)

\* `id`, `name`: what the registered provider answers to id() and name();
\* `algs`: its algorithms; `loads`: calls of loadAlgorithms so far
NoRegistry == [registered |-> FALSE, id |-> "", name |-> "", algs |-> {}, loads |-> 0]

RegistryEmpty == registry = NoRegistry

\* QgsProcessingRegistry.addProvider: the provider is loaded, which clears
\* its algorithms and calls loadAlgorithms
Registry_addProvider(r) ==
    [r EXCEPT !.registered = TRUE, !.id = "virtughan", !.name = "VirtuGhan",
              !.algs = Provider_loadAlgorithms({}), !.loads = @ + 1]

\* QgsProcessingRegistry.removeProvider
Registry_removeProvider(r) ==
    [r EXCEPT !.registered = FALSE, !.id = "", !.name = "", !.algs = {}]

----------------------------------------------------------------------------
(* The plugin object: VirtuGhanPlugin in main_plugin.py                    *)

Kinds == {"engine", "extractor", "tiler"}

\* VirtuGhanPlugin.__init__; an action is "None", "enabled" or "disabled",
\* a dock or the provider is held (TRUE) or None (FALSE); init_env is history:
\* what the bootstrap and the widget imports did when initGui ran
NoPlugin ==
    [phase |-> "absent", imports_ready |-> FALSE, last_import_error |-> "None",
     action_engine |-> "None", action_extractor |-> "None", action_tiler |-> "None",
     engine_dock |-> FALSE, extractor_dock |-> FALSE, tiler_dock |-> FALSE,
     provider |-> FALSE, init_env |-> "none"]

\* the host side: actions in the plugin menu and on the toolbar, dock widgets
\* added to the main window (how often, and whether visible), the provider in
\* the Processing registry; `removed` is history: what unload took away
NoHost ==
    [menu |-> {}, toolbar |-> {}, docks |-> [k \in Kinds |-> 0],
     visible |-> [k \in Kinds |-> FALSE], provider |-> FALSE,
     removed |-> [docks |-> 0, provider |-> FALSE]]

PluginAbsent == plugin = NoPlugin /\ host = NoHost

\* classFactory(iface) has built the plugin object
PluginConstructed == plugin = [NoPlugin EXCEPT !.phase = "constructed"] /\ host = NoHost

\* VirtuGhanPlugin._ensure_deps_and_imports: <<ok, plugin>>
Plugin_ensure_ignores_import_error(p, bootstrap_ok, import_ok) ==
    IF p.imports_ready THEN <<TRUE, p>>
    ELSE IF ~bootstrap_ok
    THEN <<FALSE, [p EXCEPT !.last_import_error = "install failed"]>>
    ELSE <<TRUE, [p EXCEPT !.imports_ready = TRUE]>>

Plugin_ensure_deps_and_imports(p, bootstrap_ok, import_ok) ==
    IF p.imports_ready THEN <<TRUE, p>>
    ELSE IF ~bootstrap_ok
    THEN <<FALSE, [p EXCEPT !.last_import_error = "install failed"]>>
    ELSE IF import_ok
    THEN <<TRUE, [p EXCEPT !.imports_ready = TRUE]>>
    ELSE <<FALSE, [p EXCEPT !.last_import_error = "import error"]>>

\* how the registration of the Processing provider may go (initGui, lines
\* 98-106): registered; the constructor raises; addProvider raises; addProvider
\* returns False without registering
ProviderOutcomes == {"ok", "ctor_raises", "add_raises", "add_refused"}

\* VirtuGhanPlugin.initGui, called by the host once after construction
P_InitGui(bootstrap_ok, import_ok, prov) ==
    /\ plugin.phase = "constructed"
    /\ LET e  == Plugin_ensure_deps_and_imports(plugin, bootstrap_ok, import_ok)
           p  == [e[2] EXCEPT !.phase = "gui",
                              !.init_env = IF ~bootstrap_ok THEN "bootstrap failed"
                                           ELSE IF ~import_ok THEN "import raised"
                                           ELSE "ok"]
       IN IF ~e[1]
          THEN /\ dialog' = "critical"
               /\ plugin' = [p EXCEPT !.action_engine = "disabled",
                                      !.action_extractor = "disabled"]
               /\ host' = [host EXCEPT !.menu = @ \cup {"engine", "extractor"}]
          ELSE /\ plugin' = [p EXCEPT !.action_engine = "enabled",
                                      !.action_extractor = "enabled",
                                      !.action_tiler = "enabled",
                                      !.provider = (prov # "ctor_raises")]
               /\ host' = [host EXCEPT !.menu = @ \cup Kinds, !.toolbar = @ \cup Kinds,
                                       !.provider = (prov = "ok")]
               /\ dialog' = IF prov \in {"ctor_raises", "add_raises"} THEN "warning"
                            ELSE "none"
    /\ registry' = IF Plugin_ensure_deps_and_imports(plugin, bootstrap_ok, import_ok)[1]
                       /\ prov = "ok"
                    THEN Registry_addProvider(registry) ELSE registry
    /\ run_click' = "none" /\ submitted' = FALSE
    /\ UNCHANGED <<others_registry, vars_engine, vars_extractor, algo, aoi_manager>>

\* the dock attribute a show_* method tests with `if not self.<kind>_dock`
Plugin_dock_never_held(p, kind) == FALSE

Plugin_dock(p, kind) ==
    IF kind = "engine" THEN p.engine_dock
    ELSE IF kind = "extractor" THEN p.extractor_dock ELSE p.tiler_dock

Plugin_set_dock(p, kind, v) ==
    IF kind = "engine" THEN [p EXCEPT !.engine_dock = v]
    ELSE IF kind = "extractor" THEN [p EXCEPT !.extractor_dock = v]
    ELSE [p EXCEPT !.tiler_dock = v]

\* the common body of show_engine / show_extractor / show_tiler; the dock's
\* constructor may raise, and then the exception leaves the method
Plugin_show(kind, bootstrap_ok, import_ok, ctor_raises) ==
    /\ plugin.phase = "gui"
    /\ LET e == IF plugin.imports_ready THEN <<TRUE, plugin>>
                ELSE Plugin_ensure_deps_and_imports(plugin, bootstrap_ok, import_ok)
       IN IF ~e[1]
          THEN /\ dialog' = "critical"
               /\ plugin' = e[2]
               /\ UNCHANGED host
          ELSE IF ~Plugin_dock(e[2], kind) /\ ctor_raises
          THEN /\ dialog' = "none"
               /\ plugin' = e[2]
               /\ UNCHANGED host
          ELSE /\ dialog' = "none"
               /\ plugin' = Plugin_set_dock(e[2], kind, TRUE)
               /\ host' = [host EXCEPT
                      !.docks[kind] = IF Plugin_dock(e[2], kind) THEN @ ELSE @ + 1,
                      !.visible[kind] = TRUE]
    /\ run_click' = "none" /\ submitted' = FALSE
    /\ UNCHANGED <<vars_tools, vars_engine, vars_extractor, algo, aoi_manager>>

\* VirtuGhanPlugin.show_engine
show_engine(bootstrap_ok, import_ok, ctor_raises) ==
    Plugin_show("engine", bootstrap_ok, import_ok, ctor_raises)

\* VirtuGhanPlugin.show_extractor
show_extractor(bootstrap_ok, import_ok, ctor_raises) ==
    Plugin_show("extractor", bootstrap_ok, import_ok, ctor_raises)

\* VirtuGhanPlugin.show_tiler
show_tiler(bootstrap_ok, import_ok, ctor_raises) ==
    Plugin_show("tiler", bootstrap_ok, import_ok, ctor_raises)

\* the user closes a dock widget: the host hides it, the plugin keeps it
P_UserClosesDock(kind) ==
    /\ plugin.phase = "gui"
    /\ host.docks[kind] > 0 /\ host.visible[kind]
    /\ host' = [host EXCEPT !.visible[kind] = FALSE]
    /\ Quiet /\ UNCHANGED <<vars_tools, vars_engine, vars_extractor, algo, plugin, aoi_manager>>

\* VirtuGhanPlugin.unload: <<plugin, host>> after it
Plugin_unload_keeps_tiler_dock(p, h) ==
    LET n == (IF p.engine_dock THEN 1 ELSE 0) + (IF p.extractor_dock THEN 1 ELSE 0)
    IN << [p EXCEPT !.action_engine = "None", !.action_extractor = "None",
                    !.action_tiler = "None", !.engine_dock = FALSE,
                    !.extractor_dock = FALSE, !.tiler_dock = FALSE, !.provider = FALSE],
          [h EXCEPT
              !.menu = @ \ {k \in Kinds : (k = "engine" /\ p.action_engine # "None")
                                          \/ (k = "extractor" /\ p.action_extractor # "None")
                                          \/ (k = "tiler" /\ p.action_tiler # "None")},
              !.toolbar = @ \ {k \in Kinds : (k = "engine" /\ p.action_engine # "None")
                                          \/ (k = "extractor" /\ p.action_extractor # "None")
                                          \/ (k = "tiler" /\ p.action_tiler # "None")},
              !.docks = [k \in Kinds |-> IF k # "tiler" /\ Plugin_dock(p, k) THEN 0 ELSE @[k]],
              !.visible = [k \in Kinds |-> IF k # "tiler" /\ Plugin_dock(p, k) THEN FALSE
                                           ELSE @[k]],
              !.provider = IF p.provider THEN FALSE ELSE @,
              !.removed = [docks |-> n, provider |-> (p.provider /\ h.provider)]] >>

Plugin_unload(p, h) ==
    LET n == (IF p.engine_dock THEN 1 ELSE 0) + (IF p.extractor_dock THEN 1 ELSE 0)
             + (IF p.tiler_dock THEN 1 ELSE 0)
    IN << [p EXCEPT !.action_engine = "None", !.action_extractor = "None",
                    !.action_tiler = "None", !.engine_dock = FALSE,
                    !.extractor_dock = FALSE, !.tiler_dock = FALSE, !.provider = FALSE],
          [h EXCEPT
              !.menu = @ \ {k \in Kinds : (k = "engine" /\ p.action_engine # "None")
                                          \/ (k = "extractor" /\ p.action_extractor # "None")
                                          \/ (k = "tiler" /\ p.action_tiler # "None")},
              !.toolbar = @ \ {k \in Kinds : (k = "engine" /\ p.action_engine # "None")
                                          \/ (k = "extractor" /\ p.action_extractor # "None")
                                          \/ (k = "tiler" /\ p.action_tiler # "None")},
              !.docks = [k \in Kinds |-> IF Plugin_dock(p, k) THEN 0 ELSE @[k]],
              !.visible = [k \in Kinds |-> IF Plugin_dock(p, k) THEN FALSE ELSE @[k]],
              !.provider = IF p.provider THEN FALSE ELSE @,
              !.removed = [docks |-> n, provider |-> (p.provider /\ h.provider)]] >>

\* the host unloads the plugin (and drops the plugin object afterwards)
P_Unload ==
    /\ plugin.phase = "gui"
    /\ LET r == Plugin_unload(plugin, host)
       IN /\ plugin' = [r[1] EXCEPT !.phase = "unloaded"]
          /\ host' = r[2]
          /\ registry' = IF host.provider /\ ~r[2].provider
                          THEN Registry_removeProvider(registry) ELSE registry
    /\ Quiet /\ UNCHANGED <<others_registry, vars_engine, vars_extractor, algo, aoi_manager>>

\* the host refreshes the registered provider (QgsProcessingProvider.
\* refreshAlgorithms): its algorithms are cleared and loadAlgorithms is called
PR_Refresh ==
    /\ registry.registered
    /\ registry.loads < MaxLoads
    /\ registry' = [registry EXCEPT !.algs = Provider_loadAlgorithms({}), !.loads = @ + 1]
    /\ Quiet /\ UNCHANGED <<vars_docks, others_registry>>

NextPlugin ==
    \/ \E b \in BOOLEAN, i \in BOOLEAN, prov \in ProviderOutcomes : P_InitGui(b, i, prov)
    \/ \E b \in BOOLEAN, i \in BOOLEAN, c \in BOOLEAN : show_engine(b, i, c)
    \/ \E b \in BOOLEAN, i \in BOOLEAN, c \in BOOLEAN : show_extractor(b, i, c)
    \/ \E b \in BOOLEAN, i \in BOOLEAN, c \in BOOLEAN : show_tiler(b, i, c)
    \/ \E k \in Kinds : P_UserClosesDock(k)
    \/ P_Unload
    \/ PR_Refresh

----------------------------------------------------------------------------
(* AoiManager in common/aoi.py                                     *)

\* `layer`: the id of the memory layer self.layer refers to, 0 for None;
\* `made`: layers created so far (the next one gets the id made + 1);
\* `project`: ids of the manager's layers in QgsProject's layer store;
\* `crs`, `feats`, `next_fid`: the CRS, the features <<fid, geometry>> and the
\* provider's next feature id of the layer self.layer refers to;
\* `op`, `last`: history, the latest call and the geometry of the latest
\* replace_geometry on the current layer
NoAoi == [exists |-> FALSE, layer |-> 0, made |-> 0, project |-> {}, crs |-> "None",
          feats |-> <<>>, next_fid |-> 1, op |-> "none", last |-> None]

AoiAbsent == aoi_manager = NoAoi

\* AoiManager.__init__
AoiConstructed == aoi_manager = [NoAoi EXCEPT !.exists = TRUE]

\* AoiManager.ensure_layer (a memory layer is always valid): the manager after it
Aoi_ensure_layer(m, crs) ==
    IF m.layer # 0 THEN m
    ELSE [m EXCEPT !.layer = m.made + 1, !.made = m.made + 1,
                   !.project = @ \cup {m.made + 1}, !.crs = crs,
                   !.feats = <<>>, !.next_fid = 1, !.last = None]

\* AoiManager.replace_geometry: the manager after it
Aoi_replace_geometry_keeps_old(m, crs, geom) ==
    LET l == Aoi_ensure_layer(m, crs)
    IN [l EXCEPT !.feats = Append(l.feats, <<l.next_fid, geom>>),
                 !.next_fid = @ + 1, !.last = geom, !.op = "replace"]

Aoi_replace_geometry(m, crs, geom) ==
    LET l   == Aoi_ensure_layer(m, crs)
        ids == {l.feats[k][1] : k \in 1 .. Len(l.feats)}
        kept == SelectSeq(l.feats, LAMBDA f : f[1] \notin ids)
    IN [l EXCEPT !.feats = Append(kept, <<l.next_fid, geom>>),
                 !.next_fid = @ + 1, !.last = geom, !.op = "replace"]

\* AoiManager.clear: the manager after it
Aoi_clear(m) ==
    [m EXCEPT !.project = IF m.layer # 0 THEN @ \ {m.layer} ELSE @,
              !.layer = 0, !.crs = "None", !.feats = <<>>, !.next_fid = 1,
              !.last = None, !.op = "clear"]

\* a call of ensure_layer with the canvas in `crs`
M_EnsureLayer(crs) ==
    /\ aoi_manager.exists
    /\ aoi_manager.layer # 0 \/ aoi_manager.made < MaxLayers
    /\ aoi_manager' = [Aoi_ensure_layer(aoi_manager, crs) EXCEPT !.op = "ensure"]
    /\ aoi_manager' # aoi_manager
    /\ Quiet /\ UNCHANGED <<vars_tools, vars_engine, vars_extractor, algo, plugin, host>>

\* a call of replace_geometry with a polygon in map coordinates
M_ReplaceGeometry(crs, rect) ==
    /\ aoi_manager.exists
    /\ aoi_manager.layer # 0 \/ aoi_manager.made < MaxLayers
    /\ aoi_manager.next_fid <= MaxFid
    /\ LET layer_crs == IF aoi_manager.layer # 0 THEN aoi_manager.crs ELSE crs
       IN aoi_manager' = Aoi_replace_geometry(aoi_manager, crs, MapRect(layer_crs, rect))
    /\ Quiet /\ UNCHANGED <<vars_tools, vars_engine, vars_extractor, algo, plugin, host>>

\* a call of clear
M_Clear ==
    /\ aoi_manager.exists
    /\ aoi_manager' = Aoi_clear(aoi_manager)
    /\ aoi_manager' # aoi_manager
    /\ Quiet /\ UNCHANGED <<vars_tools, vars_engine, vars_extractor, algo, plugin, host>>

NextAoi ==
    \/ \E crs \in CrsSet : M_EnsureLayer(crs)
    \/ \E crs \in CrsSet, r \in DegRects : M_ReplaceGeometry(crs, r)
    \/ M_Clear

----------------------------------------------------------------------------
(* extract_zipfiles in common/common_widget.py                             *)

\* A path is the sequence of its components below the file system's root.
\* Every archive is described relative to the folder os.walk found it in:
\* the archive is <<"root", "a.zip">> and its destination <<"root", "a">>.
zip_dest == <<"root", "a">>

\* the components a member name is made of
ZipComps == {"f", ".."}

\* zi.filename: `abs` when it starts with a separator; the relative names
\* have up to MaxDepth components, the absolute ones have one
ZipNames ==
    [abs : {FALSE}, parts : UNION {[1..k -> ZipComps] : k \in 1..MaxDepth}]
        \cup [abs : {TRUE}, parts : [1..1 -> ZipComps]]

\* zf.infolist(): the archives the walk can meet
ZipArchives == {ms \in SUBSET ZipNames : ms # {} /\ Cardinality(ms) <= MaxMembers}

\* os.path.join(dest_abs, zi.filename): an absolute name discards dest_abs
Zip_join(dest, name) == IF name.abs THEN name.parts ELSE dest \o name.parts

\* os.path.abspath of an absolute path: ".." removes the component before
\* it, and stays at the root when there is none
RECURSIVE Zip_abspath(_, _)
Zip_abspath(parts, acc) ==
    IF parts = <<>> THEN acc
    ELSE IF Head(parts) = ".."
         THEN Zip_abspath(Tail(parts), IF acc = <<>> THEN acc ELSE SubSeq(acc, 1, Len(acc) - 1))
         ELSE Zip_abspath(Tail(parts), Append(acc, Head(parts)))

\* target == dest_abs or target.startswith(dest_abs + os.sep)
Zip_inside(dest, target) ==
    /\ Len(target) >= Len(dest)
    /\ SubSeq(target, 1, Len(dest)) = dest

\* the zip-slip check of one member (the condition of the raise), with the
\* absolute names left unchecked
Zip_member_unsafe_relative_only(name) ==
    /\ ~name.abs
    /\ ~Zip_inside(zip_dest, Zip_abspath(Zip_join(zip_dest, name), <<>>))

\* the zip-slip check of one member (the condition of the raise)
Zip_member_unsafe(name) ==
    ~Zip_inside(zip_dest, Zip_abspath(Zip_join(zip_dest, name), <<>>))

\* zf.extractall(dest_abs): ZipFile drops the ".." components (and a leading
\* separator) of a member name and writes the rest below dest_abs
Zip_extract_target(name) ==
    zip_dest \o SelectSeq(name.parts, LAMBDA c : c # "..")

\* `n`: archives met so far in this call, the current one is number n;
\* `members`, `wrote`: the current archive's member names (once read) and the paths
\* extractall wrote from it; `rejected`, `wrote_by`, `deleted`: the numbers of
\* the archives the zip-slip check refused, that had a member written, that
\* os.remove deleted; `extracted_dirs`: the list the call returns;
\* `walk_failed`: the outer except clause ended the walk
NoZip ==
    [pc |-> "absent", delete_archives |-> FALSE, n |-> 0, members |-> {},
     wrote |-> {}, rejected |-> {}, wrote_by |-> {}, deleted |-> {},
     extracted_dirs |-> <<>>, walk_failed |-> FALSE]

ZipAbsent == zip = NoZip

ZipLoaded == zip = [NoZip EXCEPT !.pc = "idle"]

Zip_only == Quiet /\ UNCHANGED <<vars_docks, others_zip>>

\* extract_zipfiles(out_dir, logger, delete_archives) is called
Z_Call(delete_archives) ==
    /\ zip.pc = "idle"
    /\ zip' = [zip EXCEPT !.pc = "walk", !.delete_archives = delete_archives]
    /\ Zip_only

\* the walk yields a file whose name ends in .zip; os.makedirs(dest) is
\* outside the inner try, so its failure ends the whole walk
Z_NextZip(makedirs_raises) ==
    /\ zip.pc = "walk"
    /\ zip.n < MaxArchives
    /\ zip' = [zip EXCEPT !.n = @ + 1, !.members = {}, !.wrote = {},
                          !.pc = IF makedirs_raises THEN "done" ELSE "opened",
                          !.walk_failed = makedirs_raises]
    /\ Zip_only

\* zipfile.ZipFile(zpath) and the loop over zf.infolist(); the inner except
\* logs the failure and the walk goes on
Z_Check(bad_zip, members) ==
    /\ zip.pc = "opened"
    /\ zip' = IF bad_zip
              THEN [zip EXCEPT !.pc = "walk"]
              ELSE IF \E m \in members : Zip_member_unsafe(m)
              THEN [zip EXCEPT !.pc = "walk", !.members = members,
                                !.rejected = @ \cup {zip.n}]
              ELSE [zip EXCEPT !.pc = "checked", !.members = members]
    /\ Zip_only

\* zf.extractall(dest_abs), then extracted_dirs.append(dest); when extractall
\* raises, the members in `done` have been written already
Z_ExtractAll(raises, done) ==
    /\ zip.pc = "checked"
    /\ done \subseteq zip.members
    /\ raises => done # zip.members
    /\ LET wrote == {Zip_extract_target(m) : m \in (IF raises THEN done ELSE zip.members)}
       IN zip' = [zip EXCEPT
                    !.wrote = wrote,
                    !.wrote_by = IF wrote = {} THEN @ ELSE @ \cup {zip.n},
                    !.extracted_dirs = IF raises THEN @ ELSE Append(@, zip.n),
                    !.pc = IF raises THEN "walk" ELSE "extracted"]
    /\ Zip_only

\* if delete_archives: os.remove(zpath), whose failure is only logged
Z_Delete(remove_raises) ==
    /\ zip.pc = "extracted"
    /\ zip' = [zip EXCEPT
                 !.deleted = IF zip.delete_archives /\ ~remove_raises
                             THEN @ \cup {zip.n} ELSE @,
                 !.pc = "walk"]
    /\ Zip_only

\* the walk is over: return extracted_dirs
Z_Return ==
    /\ zip.pc = "walk"
    /\ zip' = [zip EXCEPT !.pc = "done"]
    /\ Zip_only

NextZip ==
    \/ \E d \in BOOLEAN : Z_Call(d)
    \/ \E r \in BOOLEAN : Z_NextZip(r)
    \/ \E b \in BOOLEAN, ms \in ZipArchives : Z_Check(b, ms)
    \/ \E r \in BOOLEAN : \E done \in SUBSET zip.members : Z_ExtractAll(r, done)
    \/ \E r \in BOOLEAN : Z_Delete(r)
    \/ Z_Return

----------------------------------------------------------------------------
(* The tile endpoint (tiler/api.py) and the XYZ layer URI (tiler_logic.py) *)

\* the zoom limits of get_tile
ApiZMin == 10
ApiZMax == 23

\* the zoom limits build_xyz_uri writes into the provider URI
UriZMin == 10
UriZMax == 23

\* the query parameters of a layer, as _on_add_layer passes them
TileParams == [band2 : {"", "nir"}, timeseries : BOOLEAN]

\* _build_query: the parameters that are neither None nor "" (band2 may be
\* ""; timeseries is present only when it is set)
Tiler_build_query(params) ==
    (IF params.band2 # "" THEN {"band2"} ELSE {})
        \cup (IF params.timeseries THEN {"timeseries", "operation"} ELSE {})
        \cup {"start_date", "end_date", "cloud_cover", "band1", "formula"}

\* build_xyz_uri: type=xyz&zmin=10&zmax=23&url=<backend>/tile/{z}/{x}/{y}?<query>
Tiler_build_xyz_uri(params) ==
    [type |-> "xyz", zmin |-> UriZMin, zmax |-> UriZMax,
     path |-> "/tile/{z}/{x}/{y}", query |-> Tiler_build_query(params)]

\* what the processor can do with a tile it is asked for: return the image,
\* raise an HTTPException (with its own status), raise anything else
ProcessorOutcomes == {"image", "http_404", "error"}

\* the zoom check at the head of get_tile, refusing zoom 23 as well
Api_zoom_refused_from_23(z) == z < ApiZMin \/ z > ApiZMax - 1

\* the zoom check at the head of get_tile
Api_zoom_refused(z) == z < ApiZMin \/ z > ApiZMax

\* get_tile(z, x, y, ...): the status answered and whether
\* processor.cached_generate_tile was awaited
Api_get_tile(z, x, y, outcome) ==
    IF Api_zoom_refused(z)
    THEN [z |-> z, x |-> x, y |-> y, status |-> 400, invoked |-> FALSE]
    ELSE [z |-> z, x |-> x, y |-> y, invoked |-> TRUE,
          status |-> CASE outcome = "image" -> 200
                       [] outcome = "http_404" -> 404
                       [] OTHER -> 500]

\* `uri`: the provider URI of the XYZ layer, None before a layer is added;
\* `served`: requests answered so far; `last`: the latest request and answer
NoRequest == [z |-> 0, x |-> 0, y |-> 0, status |-> 0, invoked |-> FALSE]

NoTile == [exists |-> FALSE, uri |-> None, served |-> 0, last |-> NoRequest]

TileAbsent == tile = NoTile

TileLoaded == tile = [NoTile EXCEPT !.exists = TRUE]

\* TilerLogic.add_xyz_layer builds the URI of a new layer
T_AddLayer(params) ==
    /\ tile.exists
    /\ tile' = [tile EXCEPT !.uri = Tiler_build_xyz_uri(params)]
    /\ tile' # tile
    /\ Quiet /\ UNCHANGED <<vars_docks, others_tile>>

\* a client asks the endpoint for a tile
T_GetTile(z, x, y, outcome) ==
    /\ tile.exists
    /\ tile.served < MaxRequests
    /\ tile' = [tile EXCEPT !.served = @ + 1, !.last = Api_get_tile(z, x, y, outcome)]
    /\ Quiet /\ UNCHANGED <<vars_docks, others_tile>>

NextTile ==
    \/ \E p \in TileParams : T_AddLayer(p)
    \/ \E z \in -1..MaxZoom, x \in 0..MaxTileXY, y \in 0..MaxTileXY :
          \E o \in ProcessorOutcomes : T_GetTile(z, x, y, o)

----------------------------------------------------------------------------
(* bootstrap.py: install_dependencies and its callers                      *)

\* install_commands of _try_install_virtughan, in order
WindowsCommands == <<"python -m pip --user", "pip --user", "python -m pip">>
OtherCommands ==
    <<"python -m pip --break-system-packages", "python -m pip --user",
      "pip3 --break-system-packages", "pip --user">>

Boot_install_commands(is_windows) ==
    IF is_windows THEN WindowsCommands ELSE OtherCommands

\* the state of the virtughan package in this interpreter: `import virtughan`
\* succeeds, raises ImportError, or raises something else
Packages == {"importable", "absent", "broken"}

\* check_dependencies(): True, False, or the exception it does not catch
check_dependencies(pkg) ==
    CASE pkg = "importable" -> "True"
      [] pkg = "absent" -> "False"
      [] OTHER -> "raises"

\* what subprocess.run(cmd, timeout=120) can do
CommandOutcomes == {"exit0", "nonzero", "timeout", "notfound", "exception"}

\* one round of the loop of _try_install_virtughan with a timeout ending
\* the whole attempt
Boot_after_command_timeout_gives_up(outcome, i, n) ==
    CASE outcome = "exit0" -> "success"
      [] outcome = "timeout" \/ i = n -> "failure"
      [] OTHER -> "next"

\* one round of the loop of _try_install_virtughan: return (True, None) on
\* exit code 0, go on to the next command otherwise, and return
\* (False, ...) after the last one
Boot_after_command(outcome, i, n) ==
    CASE outcome = "exit0" -> "success"
      [] i = n -> "failure"
      [] OTHER -> "next"

\* reply != QMessageBox.Yes, with the reply ignored
Boot_declined_never(reply) == FALSE

\* reply != QMessageBox.Yes
Boot_declined(reply) == reply # "Yes"

\* `success and check_dependencies()`, with the check left out
Boot_installed_by_exit_code(success, check) == success

\* `success and check_dependencies()`
Boot_installed(success, check) == success /\ check = "True"

\* `not quiet and parent`
Boot_interactive(b) == ~b.quiet /\ b.parent

\* `checks`: the results of the calls of check_dependencies, in order;
\* `reply`: the answer to the install prompt ("none": no prompt was shown);
\* `ran`, `exits`: the commands subprocess.run was called with (by their
\* place in install_commands) and what each did; `try_result`: what
\* _try_install_virtughan returned; `info`, `warning`, `manual`: the dialogs
\* shown; `result`: what the outermost call returned ("raised": an exception
\* left it)
NoBoot ==
    [pc |-> "absent", via_ensure |-> FALSE, parent |-> FALSE, quiet |-> FALSE,
     is_windows |-> FALSE, pkg |-> "absent", checks |-> <<>>, reply |-> "none",
     ran |-> <<>>, exits |-> <<>>, try_result |-> "none",
     info |-> FALSE, warning |-> FALSE, manual |-> FALSE, result |-> "none"]

BootAbsent == boot = NoBoot

BootLoaded == boot = [NoBoot EXCEPT !.pc = "idle"]

Boot_only == Quiet /\ UNCHANGED <<vars_docks, others_boot>>

\* an exception leaves install_dependencies: ensure_virtughan_installed
\* catches it and returns check_dependencies()
Boot_raise(b) ==
    IF b.via_ensure
    THEN [b EXCEPT !.pc = "recheck"]
    ELSE [b EXCEPT !.pc = "returned", !.result = "raised"]

\* the end of install_dependencies after a failed installation
Boot_fail(b) ==
    [b EXCEPT !.manual = Boot_interactive(b), !.pc = "returned", !.result = "False"]

\* install_dependencies(parent, quiet) is called, directly or through
\* ensure_virtughan_installed(parent, quiet)
B_Call(via_ensure, parent, quiet, is_windows, pkg) ==
    /\ boot.pc = "idle"
    /\ boot' = [boot EXCEPT !.pc = "check", !.via_ensure = via_ensure, !.parent = parent,
                            !.quiet = quiet, !.is_windows = is_windows, !.pkg = pkg]
    /\ Boot_only

\* if check_dependencies(): return True
B_Check ==
    /\ boot.pc = "check"
    /\ LET c == check_dependencies(boot.pkg)
           b == [boot EXCEPT !.checks = Append(@, c)]
       IN boot' = CASE c = "True" -> [b EXCEPT !.pc = "returned", !.result = "True"]
                    [] c = "False" ->
                         [b EXCEPT !.pc = IF Boot_interactive(b) THEN "prompt" ELSE "install"]
                    [] OTHER -> Boot_raise(b)
    /\ Boot_only

\* QMessageBox.question(...), which the user answers or which raises
B_Prompt(reply) ==
    /\ boot.pc = "prompt"
    /\ LET b == [boot EXCEPT !.reply = reply]
       IN boot' = IF reply = "raises" THEN Boot_raise(b)
                  ELSE IF Boot_declined(reply)
                  THEN [b EXCEPT !.pc = "returned", !.result = "False"]
                  ELSE [b EXCEPT !.pc = "install"]
    /\ Boot_only

\* one round of the loop of _try_install_virtughan; the command may change
\* what `import virtughan` does afterwards
B_Command(outcome, pkg_after) ==
    /\ boot.pc = "install"
    /\ outcome \notin {"exit0", "nonzero"} => pkg_after = boot.pkg
    /\ LET i == Len(boot.ran) + 1
           n == Len(Boot_install_commands(boot.is_windows))
           next == Boot_after_command(outcome, i, n)
           b == [boot EXCEPT !.ran = Append(@, i), !.exits = Append(@, outcome),
                             !.pkg = pkg_after]
       IN boot' = CASE next = "success" -> [b EXCEPT !.try_result = "success", !.pc = "check2"]
                    [] next = "failure" -> [b EXCEPT !.try_result = "failure", !.pc = "check2"]
                    [] OTHER -> b
    /\ Boot_only

\* `if success and check_dependencies()` and the rest of install_dependencies
B_Check2(info_raises) ==
    /\ boot.pc = "check2"
    /\ LET success == boot.try_result = "success"
           c == check_dependencies(boot.pkg)
           b == IF success THEN [boot EXCEPT !.checks = Append(@, c)] ELSE boot
       IN boot' =
            IF success /\ c = "raises"
            THEN Boot_fail([b EXCEPT !.warning = Boot_interactive(b)])
            ELSE IF Boot_installed(success, c)
            THEN IF Boot_interactive(b) /\ info_raises
                 THEN Boot_fail([b EXCEPT !.warning = TRUE])
                 ELSE [b EXCEPT !.info = Boot_interactive(b), !.pc = "returned",
                                !.result = "True"]
            ELSE Boot_fail(b)
    /\ Boot_only

\* the except clause of ensure_virtughan_installed: return check_dependencies()
B_Recheck ==
    /\ boot.pc = "recheck"
    /\ LET c == check_dependencies(boot.pkg)
       IN boot' = [boot EXCEPT !.checks = Append(@, c), !.pc = "returned",
                               !.result = IF c = "raises" THEN "raised" ELSE c]
    /\ Boot_only

NextBoot ==
    \/ \E v \in BOOLEAN, p \in BOOLEAN, q \in BOOLEAN, w \in BOOLEAN, pkg \in Packages :
          B_Call(v, p, q, w, pkg)
    \/ B_Check
    \/ \E reply \in {"Yes", "No", "raises"} : B_Prompt(reply)
    \/ \E o \in CommandOutcomes, pkg \in Packages : B_Command(o, pkg)
    \/ \E r \in BOOLEAN : B_Check2(r)
    \/ B_Recheck

----------------------------------------------------------------------------
(* tiler/tiler_widget.py: _InProcessServerManager and TilerWidget          *)

\* the default of portSpin, and range(21) of start()
BasePort == 8002
PortAttempts == 21

\* the ports the user can pick in portSpin
TilerPorts == BasePort .. BasePort + MaxPortOffset

\* how many rounds of the loop of start() raise (uvicorn.Config or
\* Thread.start failing): none, or all of them
SpawnFailures == {0, PortAttempts}

\* `server`: _server, the number of a uvicorn.Server object, 0 for None;
\* `running`: _running; `bound_port`: _bound_port, 0 for None;
\* `objs`: the Server objects created so far, each with the port of its
\*   Config, its should_exit flag, and the thread start() made for it:
\*   `thread` is "none" (Thread.start raised), "started" (_run has not begun),
\*   "flagged" (_run has set _running), "serving" (Server.run() has bound its
\*   port and listens), "exited" (_run is over); `runs` is the object whose
\*   run() the thread called, 0 before the call;
\* `busy`: ports other processes hold (the default port, or none);
\* `run_local`, `port_spin`, `backend_port`, `start_btn`, `stop_btn`:
\*   runLocalCheck, portSpin, the port in backendUrlLine, and whether the
\*   Start / Stop Server buttons are enabled;
\* `tiles`, `others`: the project's layers whose source has the tile path,
\*   and its other layers;
\* `last`: the latest handler run on the UI thread and what it did
NoTilerEvent ==
    [op |-> "none", start |-> "none", error |-> "none", stopped |-> FALSE,
     was_serving |-> FALSE]

NoTiler ==
    [exists |-> FALSE, server |-> 0, running |-> FALSE, bound_port |-> 0, objs |-> <<>>,
     busy |-> {}, run_local |-> FALSE, port_spin |-> 0, backend_port |-> 0,
     start_btn |-> FALSE, stop_btn |-> FALSE, tiles |-> 0, others |-> 0,
     last |-> NoTilerEvent]

TilerAbsent == tiler = NoTiler

\* _InProcessServerManager.is_running
Tiler_is_running(t) ==
    t.running /\ t.server # 0 /\ ~t.objs[t.server].should_exit

\* a thread of the manager is inside Server.run() and listens
Tiler_serving(t, k) == t.objs[k].thread = "serving"

\* _InProcessServerManager.start(app_path, host, port): <<manager, outcome>>.
\* `resolve_ok`: _resolve_app found the FastAPI app; `failures`: rounds of the
\* loop that raised; `in_thread`: they raised in Thread.start(), after
\* self._server was assigned, and not in _make_server
Tiler_start(t, port, resolve_ok, failures, in_thread) ==
    IF Tiler_is_running(t) THEN <<t, "ok">>
    ELSE IF ~resolve_ok THEN <<t, "raised">>
    ELSE LET n == Len(t.objs) + 1
             try_port == port + IF failures = PortAttempts THEN PortAttempts - 1
                                ELSE failures
             obj == [port |-> try_port, should_exit |-> FALSE, runs |-> 0,
                     thread |-> IF failures = PortAttempts THEN "none" ELSE "started"]
         IN IF failures = PortAttempts
            THEN IF in_thread
                 THEN << [t EXCEPT !.objs = Append(@, obj), !.server = n], "raised" >>
                 ELSE <<t, "raised">>
            ELSE << [t EXCEPT !.objs = Append(@, obj), !.server = n,
                              !.bound_port = try_port], "ok" >>

\* _InProcessServerManager.stop
Tiler_stop(t) ==
    [t EXCEPT !.objs = IF t.server # 0
                       THEN [@ EXCEPT ![t.server].should_exit = TRUE] ELSE @,
              !.server = 0, !.running = FALSE, !.bound_port = 0]

\* TilerWidget._apply_localserver_visibility
Tiler_apply_localserver_visibility(t) ==
    [t EXCEPT !.start_btn = t.run_local /\ ~Tiler_is_running(t),
              !.stop_btn = t.run_local /\ Tiler_is_running(t),
              !.backend_port = IF t.run_local
                               THEN (IF t.bound_port # 0 THEN t.bound_port ELSE t.port_spin)
                               ELSE @]

\* TilerWidget._on_start_server: <<widget, outcome of start()>> ("none" when
\* start() was not called)
Tiler_on_start_server(t, resolve_ok, failures, in_thread) ==
    IF Tiler_is_running(t) THEN <<t, "none">>
    ELSE LET s == Tiler_start(t, t.port_spin, resolve_ok, failures, in_thread)
             m == s[1]
             bound == IF m.bound_port # 0 THEN m.bound_port ELSE t.port_spin
         IN IF s[2] = "raised" THEN s
            ELSE << Tiler_apply_localserver_visibility(
                        [m EXCEPT !.port_spin = bound, !.backend_port = bound]), "ok" >>

\* start() creates a Server object unless it returns or raises before
Tiler_room(t) == Tiler_is_running(t) \/ Len(t.objs) < MaxServers

\* the outcomes of one call of start() that differ: rounds raise only once the
\* app is resolved, and where they raised shows only when all of them did
Tiler_start_case(resolve_ok, failures, in_thread) ==
    /\ ~resolve_ok => failures = 0
    /\ failures # PortAttempts => ~in_thread

Tiler_only == Quiet /\ UNCHANGED <<vars_docks, others_tiler>>

\* TilerWidget.__init__
TilerConstructed ==
    \E busy \in SUBSET {BasePort}, others \in 0..MaxOtherLayers :
        tiler = [NoTiler EXCEPT !.exists = TRUE, !.busy = busy, !.others = others,
                                !.run_local = TRUE, !.port_spin = BasePort,
                                !.backend_port = BasePort, !.start_btn = TRUE]

\* the user toggles "run local": _apply_localserver_visibility
TW_ToggleRunLocal ==
    /\ tiler.exists
    /\ tiler' = [Tiler_apply_localserver_visibility([tiler EXCEPT !.run_local = ~@])
                   EXCEPT !.last = [NoTilerEvent EXCEPT !.op = "toggle"]]
    /\ Tiler_only

\* the user edits portSpin
TW_SetPort(p) ==
    /\ tiler.exists
    /\ p # tiler.port_spin
    /\ tiler' = [tiler EXCEPT !.port_spin = p, !.last = [NoTilerEvent EXCEPT !.op = "port"]]
    /\ Tiler_only

\* the user clicks Start Server: _on_start_server
TW_StartServer(resolve_ok, failures, in_thread) ==
    /\ tiler.exists
    /\ tiler.start_btn
    /\ Tiler_room(tiler)
    /\ Tiler_start_case(resolve_ok, failures, in_thread)
    /\ LET s == Tiler_on_start_server(tiler, resolve_ok, failures, in_thread)
       IN tiler' = [s[1] EXCEPT !.last = [NoTilerEvent EXCEPT
                                             !.op = "start", !.start = s[2],
                                             !.error = IF s[2] = "raised"
                                                       THEN "start_server" ELSE "none"]]
    /\ Tiler_only

\* the user clicks Stop Server: _on_stop_server
TW_StopServer ==
    /\ tiler.exists
    /\ tiler.stop_btn
    /\ tiler' = [Tiler_apply_localserver_visibility(Tiler_stop(tiler))
                   EXCEPT !.last = [NoTilerEvent EXCEPT !.op = "stop", !.stopped = TRUE]]
    /\ Tiler_only

\* the user clicks Add Layer: _on_add_layer. `valid`: _validate passes;
\* `layer_ok`: the QgsRasterLayer made by add_xyz_layer is valid
TW_AddLayer(valid, layer_ok, resolve_ok, failures, in_thread) ==
    /\ tiler.exists
    /\ tiler.tiles < MaxTileLayers
    /\ Tiler_room(tiler)
    /\ Tiler_start_case(resolve_ok, failures, in_thread)
    /\ (~valid \/ ~tiler.run_local \/ Tiler_is_running(tiler))
          => (resolve_ok /\ failures = 0)
    /\ ~valid => layer_ok
    /\ LET must_start == tiler.run_local /\ ~Tiler_is_running(tiler)
           s == IF valid /\ must_start
                THEN Tiler_on_start_server(tiler, resolve_ok, failures, in_thread)
                ELSE <<tiler, "none">>
           t == s[1]
           error == IF ~valid THEN "invalid"
                    ELSE IF must_start /\ ~Tiler_is_running(t) THEN "did_not_start"
                    ELSE IF ~layer_ok THEN "layer" ELSE "none"
       IN tiler' = [t EXCEPT !.tiles = IF error = "none" THEN @ + 1 ELSE @,
                             !.last = [NoTilerEvent EXCEPT
                                          !.op = "add", !.start = s[2], !.error = error]]
    /\ Tiler_only

\* TilerWidget._on_layers_removed, after the project has dropped the layers
Tiler_on_layers_removed(t) ==
    IF t.run_local /\ t.tiles = 0 /\ Tiler_is_running(t)
    THEN [Tiler_apply_localserver_visibility(Tiler_stop(t))
            EXCEPT !.last = [t.last EXCEPT !.stopped = TRUE]]
    ELSE t

\* the latest handler was a removal of layers that left `t`
Tiler_removal_event(t, op) ==
    [NoTilerEvent EXCEPT !.op = op,
                         !.was_serving =
                             \E k \in DOMAIN t.objs :
                                Tiler_serving(t, k) /\ ~t.objs[t.objs[k].runs].should_exit]

\* the user removes layers from the project: QgsProject.layersRemoved
TW_LayersRemoved(tiles, others) ==
    /\ tiler.exists
    /\ tiles <= tiler.tiles /\ others <= tiler.others /\ tiles + others > 0
    /\ LET t == [tiler EXCEPT !.tiles = @ - tiles, !.others = @ - others]
       IN tiler' = Tiler_on_layers_removed(
                      [t EXCEPT !.last = Tiler_removal_event(t, "removed")])
    /\ Tiler_only

\* the user clicks Reset: _on_reset removes the tiler layers (which emits
\* layersRemoved when there are any), then _init_defaults checks "run local"
TW_Reset ==
    /\ tiler.exists
    /\ LET t == [tiler EXCEPT !.tiles = 0]
           r == IF tiler.tiles > 0
                THEN Tiler_on_layers_removed(
                        [t EXCEPT !.last = Tiler_removal_event(t, "reset_removed")])
                ELSE [t EXCEPT !.last = [NoTilerEvent EXCEPT !.op = "reset"]]
       IN tiler' = Tiler_apply_localserver_visibility([r EXCEPT !.run_local = TRUE])
    /\ Tiler_only

\* thread k begins _run: self._running = True
ST_SetRunning(k) ==
    /\ tiler.exists
    /\ k \in DOMAIN tiler.objs
    /\ tiler.objs[k].thread = "started"
    /\ tiler' = [tiler EXCEPT !.running = TRUE, !.objs[k].thread = "flagged"]
    /\ Tiler_only

\* thread k calls self._server.run(): on whatever self._server is by now.
\* Without an object, or when the port of the object cannot be bound, run()
\* ends at once and the finally clause clears _running
ST_Run(k) ==
    /\ tiler.exists
    /\ k \in DOMAIN tiler.objs
    /\ tiler.objs[k].thread = "flagged"
    /\ LET o == tiler.server
           binds == /\ o # 0
                    /\ tiler.objs[o].port \notin tiler.busy
                    /\ \A j \in DOMAIN tiler.objs :
                          Tiler_serving(tiler, j)
                              => tiler.objs[tiler.objs[j].runs].port # tiler.objs[o].port
       IN tiler' = IF binds
                   THEN [tiler EXCEPT !.objs[k].thread = "serving", !.objs[k].runs = o]
                   ELSE [tiler EXCEPT !.objs[k].thread = "exited", !.objs[k].runs = o,
                                      !.running = FALSE]
    /\ Tiler_only

\* the Server object thread k runs has should_exit set: run() returns and the
\* finally clause clears _running
ST_Exit(k) ==
    /\ tiler.exists
    /\ k \in DOMAIN tiler.objs
    /\ Tiler_serving(tiler, k)
    /\ tiler.objs[tiler.objs[k].runs].should_exit
    /\ tiler' = [tiler EXCEPT !.objs[k].thread = "exited", !.running = FALSE]
    /\ Tiler_only

NextTiler ==
    \/ TW_ToggleRunLocal
    \/ \E p \in TilerPorts : TW_SetPort(p)
    \/ \E r \in BOOLEAN, f \in SpawnFailures, i \in BOOLEAN : TW_StartServer(r, f, i)
    \/ TW_StopServer
    \/ \E v \in BOOLEAN, l \in BOOLEAN, r \in BOOLEAN, f \in SpawnFailures, i \in BOOLEAN :
          TW_AddLayer(v, l, r, f, i)
    \/ \E n \in 0..MaxTileLayers, m \in 0..MaxOtherLayers : TW_LayersRemoved(n, m)
    \/ TW_Reset
    \/ \E k \in 1..MaxServers : ST_SetRunning(k)
    \/ \E k \in 1..MaxServers : ST_Run(k)
    \/ \E k \in 1..MaxServers : ST_Exit(k)

----------------------------------------------------------------------------
(* Specifications                                                          *)

ToolsAbsent ==
    ZipAbsent /\ TileAbsent /\ BootAbsent /\ RegistryEmpty /\ TilerAbsent

NoOutput == dialog = "none" /\ run_click = "none" /\ submitted = FALSE

InitEngine ==
    /\ EngineConstructed /\ ExtractorAbsent /\ AlgoAbsent /\ PluginAbsent /\ AoiAbsent
    /\ ToolsAbsent /\ NoOutput

InitExtractor ==
    /\ EngineAbsent /\ ExtractorConstructed /\ AlgoAbsent /\ PluginAbsent /\ AoiAbsent
    /\ ToolsAbsent /\ NoOutput

InitAlgo ==
    /\ EngineAbsent /\ ExtractorAbsent /\ AlgoLoaded /\ PluginAbsent /\ AoiAbsent
    /\ ToolsAbsent /\ NoOutput

InitPlugin ==
    /\ EngineAbsent /\ ExtractorAbsent /\ AlgoAbsent /\ PluginConstructed /\ AoiAbsent
    /\ ToolsAbsent /\ NoOutput

InitAoi ==
    /\ EngineAbsent /\ ExtractorAbsent /\ AlgoAbsent /\ PluginAbsent /\ AoiConstructed
    /\ ToolsAbsent /\ NoOutput

\* one dock widget at work
SpecEngine == InitEngine /\ [][NextEngine]_vars

\* one Engine dock with its log tailer: the QTimer of _start_log_tailer is a
\* further source of events, and a poll that has something to read is not
\* postponed for ever.  The backend is importable (no run, and so no tailer,
\* without it).  Of the handlers of the dock those that touch the tailer, the
\* log or the task are kept, and _use_canvas_extent to set an AOI; the draw
\* tool, the mode combo and Clear AOI only change the AOI and the buttons
InitEngineTail == InitEngine /\ engine_env.vcube /\ engine_env.common

NextEngineTail ==
    \/ \E cv \in Canvases : E_UseCanvasExtent(cv)
    \/ E_ResetForm
    \/ E_RunClicked
    \/ E_PollLogTail
    \/ TM_StartEngine
    \/ TM_CancelEngine
    \/ VT_Begin
    \/ VT_Preflight
    \/ VT_Loop
    \/ VT_Join
    \/ VT_Return
    \/ \E raises \in BOOLEAN : VC_Build(raises)
    \/ \E raises \in BOOLEAN : VC_ComputeEnds(raises)
    \/ TM_FinishEngine

SpecEngineTail ==
    InitEngineTail /\ [][NextEngineTail]_vars /\ WF_vars(E_PollLogTail)

SpecExtractor == InitExtractor /\ [][NextExtractor]_vars

\* either dock widget at work (the docks share no state)
SpecDocks == (InitEngine \/ InitExtractor) /\ [][NextEngine \/ NextExtractor]_vars

\* one call of the Engine Processing algorithm
SpecAlgo == InitAlgo /\ [][NextAlgo]_vars

\* one plugin object from construction to unload
SpecPlugin == InitPlugin /\ [][NextPlugin]_vars

\* one AoiManager
SpecAoi == InitAoi /\ [][NextAoi]_vars

DocksAbsent ==
    EngineAbsent /\ ExtractorAbsent /\ AlgoAbsent /\ PluginAbsent /\ AoiAbsent

InitZip ==
    DocksAbsent /\ ZipLoaded /\ TileAbsent /\ BootAbsent /\ RegistryEmpty /\ TilerAbsent
        /\ NoOutput

\* one call of extract_zipfiles
SpecZip == InitZip /\ [][NextZip]_vars

InitTile ==
    DocksAbsent /\ ZipAbsent /\ TileLoaded /\ BootAbsent /\ RegistryEmpty /\ TilerAbsent
        /\ NoOutput

\* the tile endpoint and the layers that point at it
SpecTile == InitTile /\ [][NextTile]_vars

InitBoot ==
    DocksAbsent /\ ZipAbsent /\ TileAbsent /\ BootLoaded /\ RegistryEmpty /\ TilerAbsent
        /\ NoOutput

\* one call of install_dependencies or ensure_virtughan_installed
SpecBoot == InitBoot /\ [][NextBoot]_vars

\* the same call on the UI thread, which runs every statement it reaches
SpecBootFair == SpecBoot /\ WF_vars(NextBoot)

InitTiler ==
    DocksAbsent /\ ZipAbsent /\ TileAbsent /\ BootAbsent /\ RegistryEmpty
        /\ TilerConstructed /\ NoOutput

\* one TilerWidget, the user at its controls and the server threads
SpecTiler == InitTiler /\ [][NextTiler]_vars

----------------------------------------------------------------------------
(* Properties                                                              *)

\* a bbox [min_lon, min_lat, max_lon, max_lat] within +-180 / +-90
InLonLat(b) ==
    /\ Len(b) = 4
    /\ Abs(b[1]) <= 180 /\ Abs(b[3]) <= 180
    /\ Abs(b[2]) <= 90 /\ Abs(b[4]) <= 90

HasLine(log, line) == \E k \in 1 .. Len(log) : log[k] = line

\* C1: once the task manager has finished with an Engine task (run() returned
\* and finished() was delivered), the dock's completion callback has been
\* called exactly once, the dock has left its running state (progress bar
\* hidden, Run enabled) and a success or failure dialog has been shown.
C1_EngineCompletionCallback ==
    etask.st = "complete" =>
        /\ etask.done_calls = 1
        /\ ~engine_ui.progress
        /\ engine_ui.run
        /\ etask.dialog \in {"information", "critical"}

CancelSteps == 5

\* C3: a cancelled task of either dock is out of run() after at most
\* CancelSteps further steps of run(), whatever the backend call is doing.
C3_CancelReturnsPromptly ==
    /\ (etask.st = "running" /\ etask.canceled) => etask.after_cancel < CancelSteps
    /\ (xtask.st = "running" /\ xtask.canceled) => xtask.after_cancel < CancelSteps

\* C4: the Engine backend is only ever built with a bbox of four numbers
\* within +-180 / +-90; a task whose bbox is missing, of another length or out
\* of that range and that is past the preflight has recorded an error, has
\* started no compute thread, has built nothing and has returned False.
C4_EnginePreflight ==
    /\ etask.built => InLonLat(etask.proc)
    /\ (etask.st # "none" /\ etask.pc \notin {"none", "begin", "preflight"}
            /\ ~InLonLat(etask.bbox)) =>
          /\ etask.exc = "ValueError"
          /\ etask.thr = "none"
          /\ ~etask.built
          /\ etask.result = FALSE
          /\ etask.st \in {"returned", "complete"}

\* C4 witness: a task with four numbers out of range was rejected by the preflight
C4_Witness ==
    /\ etask.st = "returned"
    /\ Len(etask.bbox) = 4 /\ ~InLonLat(etask.bbox)
    /\ etask.exc = "ValueError"
    /\ HasLine(engine_log, "[fatal]")

\* C5: the bbox ExtractorBackend is built with is within +-180 longitude and
\* +-90 latitude, also when _collect_params or _run_clicked swapped its axes.
C5_ExtractorBboxInBounds ==
    xtask.built => InLonLat(xtask.proc)

\* C6: a Run click on either dock submits a task only if the inputs are valid
\* (AOI set, start <= end, the required text or band given); a click with
\* invalid inputs shows a warning, submits no task, creates no output folder,
\* leaves the dock's controls as they were and leaves the AOI unchanged.
C6_RunOnlyWhenValid ==
    [][ run_click' # "none" =>
          /\ submitted' => run_click' = "valid"
          /\ run_click' = "invalid" =>
                /\ dialog' = "warning"
                /\ ~submitted'
                /\ etask' = etask /\ xtask' = xtask
                /\ engine_outdir' = engine_outdir
                /\ engine_ui' = engine_ui
                /\ engine_aoi_bbox' = engine_aoi_bbox
                /\ extractor_aoi_bbox' = extractor_aoi_bbox ]_vars

\* C6 witness: Run was clicked with an AOI but otherwise invalid inputs while
\* an earlier task was running, and the warning is up
C6_Witness ==
    /\ run_click = "invalid" /\ dialog = "warning" /\ ~submitted
    /\ extractor_aoi_bbox # None
    /\ xtask.st = "running"

\* the inputs of a call as the validation of processAlgorithm wants them: a
\* converted bbox within +-180 / +-90, two valid dates with start <= end,
\* formula and band 1 not empty, an operation unless a timeseries is asked for
AlgoInputsValid(a) ==
    /\ a.params # None
    /\ a.bbox # None /\ InLonLat(a.bbox)
    /\ a.params.start # 0 /\ a.params.end # 0
    /\ a.params.start <= a.params.end
    /\ Strip(a.params.formula) # ""
    /\ Strip(a.params.band1) # ""
    /\ a.params.ts \/ (a.params.op_idx < 7)

\* C7: processAlgorithm reaches the VCubeProcessor call (and makes the output
\* folder and the log) only with valid inputs; a call that ends without
\* reaching it has raised QgsProcessingException and has made neither the
\* folder nor the log.
C7_AlgorithmValidation ==
    /\ (algo.reached \/ algo.folder \/ algo.log) => AlgoInputsValid(algo)
    /\ algo.pc = "returned" => algo.reached
    /\ (algo.pc = "raised" /\ ~algo.reached) =>
          /\ algo.exc = "QgsProcessingException"
          /\ ~algo.folder /\ ~algo.log

C9_FailedInitGui ==
    [][ (plugin.phase = "constructed" /\ plugin'.phase = "gui"
            /\ plugin'.init_env \in {"bootstrap failed", "import raised"}) =>
          /\ dialog' = "critical"
          /\ host'.menu = {"engine", "extractor"}
          /\ plugin'.action_engine = "disabled" /\ plugin'.action_extractor = "disabled"
          /\ host'.toolbar = {}
          /\ plugin'.action_tiler = "None"
          /\ \A k \in Kinds : host'.docks[k] = 0
          /\ ~plugin'.engine_dock /\ ~plugin'.extractor_dock /\ ~plugin'.tiler_dock
          /\ ~plugin'.provider /\ ~host'.provider
          /\ ~plugin'.imports_ready ]_vars

\* C9 witness: initGui has just run with the widget imports raising
C9_Witness ==
    /\ plugin.phase = "gui" /\ plugin.init_env = "import raised"
    /\ dialog = "critical"
    /\ host.menu = {"engine", "extractor"}

\* C10: after replace_geometry the manager's layer is in the project and holds
\* exactly one feature, with the geometry of that call; after clear() the
\* manager refers to no layer and none of its layers is left in the project.
C10_AoiSingleFeature ==
    /\ aoi_manager.op = "replace" =>
          /\ aoi_manager.layer # 0 /\ aoi_manager.layer \in aoi_manager.project
          /\ Len(aoi_manager.feats) = 1
          /\ aoi_manager.feats[1][2] = aoi_manager.last
    /\ aoi_manager.op = "clear" =>
          /\ aoi_manager.layer = 0
          /\ aoi_manager.project = {}

\* C10 witness: the third replace_geometry on a layer that was made after a clear()
C10_Witness ==
    /\ aoi_manager.op = "replace"
    /\ aoi_manager.made >= 2 /\ aoi_manager.next_fid >= 4
    /\ Len(aoi_manager.feats) = 1

\* the path a member name resolves to lies outside the archive's folder
ResolvesOutside(name) ==
    LET t == Zip_abspath(Zip_join(zip_dest, name), <<>>)
    IN ~(Len(t) >= Len(zip_dest) /\ \A i \in 1..Len(zip_dest) : t[i] = zip_dest[i])

ZipRange(seq) == {seq[i] : i \in DOMAIN seq}

\* C11: extract_zipfiles writes no file outside an archive's destination
\* folder; an archive with a member that resolves outside the folder has no
\* member extracted, its folder is not in the returned list, it is not deleted
\* and its rejection does not end the walk over the remaining archives; an
\* archive is deleted only when delete_archives is set and its folder is in
\* the returned list, i.e. its extraction succeeded.
C11_ZipSlipContained ==
    /\ \A t \in zip.wrote : ~ResolvesOutside([abs |-> TRUE, parts |-> t])
    /\ (\E m \in zip.members : ResolvesOutside(m))
          => /\ zip.wrote = {}
             /\ zip.pc \notin {"checked", "extracted"}
             /\ zip.n \notin zip.wrote_by \cup zip.deleted \cup ZipRange(zip.extracted_dirs)
             /\ zip.n \in zip.rejected => ~zip.walk_failed
    /\ \A i \in zip.rejected :
          i \notin zip.wrote_by \cup zip.deleted \cup ZipRange(zip.extracted_dirs)
    /\ \A i \in zip.deleted : zip.delete_archives /\ i \in ZipRange(zip.extracted_dirs)

\* the first archive was refused for an unsafe member, the second one was
\* extracted and deleted, and the call has returned
C11_Witness ==
    /\ zip.pc = "done"
    /\ zip.rejected = {1}
    /\ zip.extracted_dirs = <<2>>
    /\ zip.deleted = {2}
    /\ zip.wrote # {}

\* C12: the zoom range of the XYZ layer URI is the range the endpoint serves:
\* a request invokes the tile processor exactly when its z lies within the
\* URI's zmin..zmax (10..23), and every other z is answered with status 400
\* without the processor being invoked.
C12_ZoomRangeAgrees ==
    (tile.uri # None /\ tile.served > 0)
        => /\ tile.uri.zmin = 10 /\ tile.uri.zmax = 23
           /\ tile.last.invoked <=> (tile.uri.zmin <= tile.last.z /\ tile.last.z <= tile.uri.zmax)
           /\ ~tile.last.invoked => tile.last.status = 400

\* a layer exists and the second request, for zoom 24, was refused
C12_Witness ==
    /\ tile.uri # None
    /\ tile.served = 2
    /\ tile.last.z = 24 /\ tile.last.status = 400 /\ ~tile.last.invoked

BootLast(seq) == seq[Len(seq)]

\* C13: install_dependencies and ensure_virtughan_installed return True only
\* if the latest check_dependencies before the return found the package
\* importable; when an install command exited with code 0 and the package
\* still cannot be imported, the call returns False.
C13_TrueOnlyIfImportable ==
    /\ boot.result = "True" => (boot.checks # <<>> /\ BootLast(boot.checks) = "True")
    /\ (boot.pc = "returned" /\ boot.try_result = "success" /\ boot.pkg # "importable")
          => boot.result = "False"

\* an install command exited with code 0, the package is still absent and the
\* call returned False
C13_Witness ==
    /\ boot.pc = "returned"
    /\ boot.try_result = "success"
    /\ boot.pkg = "absent"
    /\ boot.result = "False"

\* C14: when the install prompt is shown and the user does not answer Yes,
\* install_dependencies returns False, runs no install command and does not
\* show the manual-install dialog; when the package is importable at the call
\* it returns True, shows no prompt and runs no install command.
C14_DeclineAndAlreadyInstalled ==
    /\ boot.reply = "No"
          => /\ boot.pc = "returned" /\ boot.result = "False"
             /\ boot.ran = <<>> /\ ~boot.manual
    /\ (boot.checks # <<>> /\ boot.checks[1] = "True")
          => /\ boot.pc = "returned" /\ boot.result = "True"
             /\ boot.reply = "none" /\ boot.ran = <<>>

\* the prompt was shown, the user answered No and the call returned False
C14_Witness ==
    /\ boot.pc = "returned"
    /\ boot.reply = "No"
    /\ boot.result = "False"
    /\ ~boot.quiet /\ boot.parent

\* the commands were run in the listed order, each at most once, none after a
\* command that exited with code 0, and the result says how the loop ended
C16_Attempts ==
    LET n == Len(Boot_install_commands(boot.is_windows))
    IN /\ n = IF boot.is_windows THEN 3 ELSE 4
       /\ Len(boot.ran) <= n
       /\ \A k \in DOMAIN boot.ran : boot.ran[k] = k
       /\ \A k \in DOMAIN boot.exits : boot.exits[k] = "exit0" => k = Len(boot.exits)
       /\ boot.try_result = "success"
             <=> (boot.exits # <<>> /\ BootLast(boot.exits) = "exit0")
       /\ boot.try_result = "failure"
             <=> (Len(boot.ran) = n /\ \A k \in DOMAIN boot.exits : boot.exits[k] # "exit0")
       /\ boot.pc = "install" => (boot.try_result = "none" /\ Len(boot.ran) < n)
       /\ boot.ran # <<>> => (boot.pc = "install" <=> boot.try_result = "none")

\* C16: _try_install_virtughan runs its commands in the listed order, each at
\* most once; it returns success at the first command that exits with code 0
\* and runs none after it; any other outcome moves on to the next command; it
\* returns failure only after all 3 (Windows) or 4 (elsewhere) commands were
\* tried, and it always returns.
C16_TryInstallOrder ==
    /\ []C16_Attempts
    /\ (boot.pc = "install") ~> (boot.try_result # "none")

\* on a non-Windows platform the first three commands failed in three
\* different ways and the fourth exited with code 0
C16_Witness ==
    /\ ~boot.is_windows
    /\ boot.try_result = "success"
    /\ boot.ran = <<1, 2, 3, 4>>
    /\ boot.exits = <<"timeout", "notfound", "nonzero", "exit0">>

\* C15: the registered Processing provider has id "virtughan" and name
\* "VirtuGhan", and after loadAlgorithms it holds exactly two algorithms, the
\* Engine and the Extractor algorithm, each with groupId "virtughan".
C15_ProviderAlgorithms ==
    registry.registered
        => /\ registry.id = "virtughan" /\ registry.name = "VirtuGhan"
           /\ Cardinality(registry.algs) = 2
           /\ {a.class : a \in registry.algs}
                 = {"VirtuGhanEngineAlgorithm", "VirtuGhanExtractorAlgorithm"}
           /\ \A a \in registry.algs : a.groupId = "virtughan"

\* the provider is registered and the host has refreshed it once
C15_Witness ==
    /\ registry.registered
    /\ registry.loads = 2
    /\ host.provider

\* the threads that are inside Server.run() of an object nobody told to exit
TilerServing == {k \in DOMAIN tiler.objs :
                    Tiler_serving(tiler, k) /\ ~tiler.objs[tiler.objs[k].runs].should_exit}

\* C17: after start() has returned without raising, is_running() is True,
\* however the calling thread and the new server thread interleave; so
\* _on_add_layer reports "Local server did not start" only when start() did
\* not start a server.
C17_StartedMeansRunning ==
    /\ tiler.last.start = "ok" => Tiler_is_running(tiler)
    /\ tiler.last.error = "did_not_start" => tiler.last.start # "ok"

\* C18: is_running() is True whenever the server of the latest start() is
\* serving and stop() was not called since (the exit of an earlier server
\* thread does not clear it), and no second server is created while one is
\* still serving.
C18_RunningWhileServing ==
    /\ (tiler.server # 0 /\ \E k \in TilerServing : tiler.objs[k].runs = tiler.server)
          => Tiler_is_running(tiler)
    /\ Cardinality(TilerServing) <= 1

\* C19: when the requested port cannot be bound start() moves on to the next
\* port, so the port it returns with is one that could be bound, and once the
\* server thread has run, _bound_port, the port field and (with "run local"
\* checked) the backend URL name a port the server listens on.
C19_BoundPortListens ==
    /\ (tiler.last.start = "ok" /\ tiler.bound_port # 0)
          => tiler.bound_port \notin tiler.busy
    /\ (tiler.server # 0 /\ tiler.bound_port # 0
            /\ tiler.objs[tiler.server].thread \in {"serving", "exited"})
          => \E k \in TilerServing : tiler.objs[tiler.objs[k].runs].port = tiler.bound_port
    /\ (tiler.last.start = "ok" /\ tiler.last.op = "start" /\ tiler.bound_port # 0)
          => /\ tiler.port_spin = tiler.bound_port
             /\ tiler.run_local => tiler.backend_port = tiler.bound_port

\* C20: when layers were removed while "run local" is checked, a running
\* local server was stopped exactly if no layer with the tile path remains;
\* while such a layer remains the removal stops no server.
C20_RemovalStopsServer ==
    (tiler.last.op = "removed" /\ tiler.run_local)
        => /\ tiler.last.was_serving => (tiler.last.stopped <=> tiler.tiles = 0)
           /\ tiler.tiles > 0 => ~tiler.last.stopped

\* an Engine task is in flight: handed to the task manager and finished()
\* not yet delivered
EngineInFlight == etask.st \in {"queued", "running", "returned"}

\* every control _set_running(True) disables
EngineControlsOff ==
    /\ ~engine_ui.run /\ ~engine_ui.reset /\ ~engine_ui.browse
    /\ ~engine_ui.use /\ ~engine_ui.draw /\ ~engine_ui.clear /\ ~engine_ui.mode_combo

\* C21: while an Engine task of the dock is in flight, the Run, Reset, AOI
\* and output-browse controls are disabled, no step submits a second task
\* and no step changes the dock's AOI.
C21_OneEngineTaskInFlight ==
    [][EngineInFlight =>
          /\ EngineControlsOff
          /\ ~submitted'
          /\ engine_aoi_bbox' = engine_aoi_bbox]_vars

\* run() saw the cancel request while compute() was running: it wrote
\* "[cancel]" (which it does only while the compute thread is alive) after
\* the thread had logged "entering compute()"
CancelledInCompute ==
    \E i, j \in 1 .. Len(engine_log) :
        /\ i < j
        /\ engine_log[i] = "entering compute()"
        /\ engine_log[j] = "[cancel]"

\* C23: an Engine run cancelled while compute() was still running is not a
\* success: run() does not return True and the dock does not show the
\* "Engine finished" dialog.
C23_CancelledNotSuccess ==
    (CancelledInCompute /\ etask.st \in {"returned", "complete"}) =>
        /\ etask.result = FALSE
        /\ etask.dialog # "information"

\* C24: when the callback of a successful Extractor run has sent the run's
\* rasters through _try_fix_and_load, the expected bbox it passed is the bbox
\* the run was submitted with.
C24_ExpectedBboxIsSubmitted ==
    (xtask.st = "complete" /\ xtask.dialog = "information" /\ xtask.files)
        => xtask.expected = xtask.bbox

\* the tailer has shown exactly the part of runtime.log before its position
TailShownIsPrefix ==
    /\ engine_tail.pos <= Len(engine_log)
    /\ engine_tail.shown = SubSeq(engine_log, 1, engine_tail.pos)
    /\ engine_tail.timers <= 1
    /\ engine_tail.timer <=> engine_tail.timers = 1

\* one step of the tailer: a Run click that submits a task points the tailer
\* at the run's log with position 0 and a running timer; any other step
\* keeps the path, does not move the position back and appends exactly the
\* lines between the old and the new position
TailStep ==
    IF submitted'
    THEN /\ engine_tail'.path /\ engine_tail'.timer
         /\ engine_tail'.pos = 0
         /\ engine_tail'.shown = engine_tail.shown
    ELSE /\ engine_tail'.path = engine_tail.path
         /\ engine_tail'.pos >= engine_tail.pos
         /\ engine_tail'.shown = engine_tail.shown
                \o SubSeq(engine_log, engine_tail.pos + 1, engine_tail'.pos)

DockHeld(k) ==
    IF k = "engine" THEN plugin.engine_dock
    ELSE IF k = "extractor" THEN plugin.extractor_dock ELSE plugin.tiler_dock

\* between initGui and unload: the host has each kind of dock at most once,
\* and exactly the docks the plugin holds; while the imports are not ready
\* there is no dock and the latest call has shown the critical dialog
DocksOncePerKind ==
    plugin.phase = "gui" =>
        /\ \A k \in Kinds : host.docks[k] = (IF DockHeld(k) THEN 1 ELSE 0)
        /\ ~plugin.imports_ready =>
              /\ \A k \in Kinds : host.docks[k] = 0
              /\ dialog = "critical"

\* between initGui and unload a dock that exists stays the plugin's dock of
\* its kind, registered once, whatever is called; a step that registers a
\* dock registers one and leaves it visible
DockKept ==
    (plugin.phase = "gui" /\ plugin'.phase = "gui") =>
        \A k \in Kinds :
            /\ host.docks[k] = 1 => host.docks'[k] = 1
            /\ host.docks'[k] > host.docks[k] =>
                  /\ host.docks'[k] = 1 /\ host.visible'[k]
                  /\ \A j \in Kinds \ {k} : host.docks'[j] = host.docks[j]

\* C25: between initGui and unload the plugin holds at most one dock widget
\* of each kind: the first successful show_* creates the dock and registers
\* it once, later calls keep that dock, and while the dependencies are
\* missing a show_* call registers no dock and shows a critical dialog.
C25_OneDockPerKind == []DocksOncePerKind /\ [][DockKept]_vars

\* C25 witness: initGui failed at the bootstrap, a later show_* found the
\* dependencies and by now all three docks are registered once; the Engine
\* dock was closed by the user and is shown again
C25_Witness ==
    /\ plugin.phase = "gui" /\ plugin.init_env = "bootstrap failed"
    /\ \A k \in Kinds : host.docks[k] = 1
    /\ host.visible["engine"] /\ ~host.visible["tiler"]

====
